---------------------------- MODULE Spec2Model ----------------------------
(***************************************************************************)
(* Recipe interchange protocol of my-recipe-box: the share-link codec      *)
(* (src/utils/sharing.ts), the schema migration ladder (MigrationSystem,   *)
(* src/components/VersionCompatibilityInfo.tsx lines 164-548), the store   *)
(* wrapper (src/utils/database.ts), backup versioning                      *)
(* (src/utils/backupVersioning.ts) and the Google Drive backup             *)
(* (GoogleDriveBackup, src/unnamed/part_009).                              *)
(*                                                                         *)
(* JavaScript values are tagged tuples, objects are ordered member lists   *)
(* (insertion order, as JSON.stringify walks them).  JSON text is the      *)
(* member list of literal strings that JSON.stringify emits; its length    *)
(* is counted character by character.  Text is ASCII, so UTF-8 bytes and   *)
(* UTF-16 units coincide.  MD5 and SHA-256 are collision free.             *)
(***************************************************************************)
EXTENDS Integers, Sequences, FiniteSets, TLC

(***************************************************************************)
(* Bounds of the model.                                                    *)
(***************************************************************************)
MaxRecipes == 1      \* stored recipes per backend
MaxTime == 1         \* Date.now() ranges over 1..MaxTime
MaxShareVersion == 3 \* format versions of incoming payloads: 0..MaxShareVersion
FillLen == 1344      \* length of the long instructions text (straddles the budget)
MaxCount == 2        \* list lengths and counts in backup snapshots: 0..MaxCount
MaxSchema == 3       \* schema versions in backup metadata: -1..MaxSchema
MaxBackups == 1      \* backup files on Drive
MaxSeries == 6       \* backup files on Drive after a series of backups

(***************************************************************************)
(* Program constants.                                                      *)
(***************************************************************************)
MAX_LINK_SIZE == 2048
CURRENT_VERSION == 3
APP_VERSION == "1.3.0"
LinkPrefix == "myrecipebox://import/"
TooLarge == "Recipe data too large for sharing"
MAX_BACKUPS == 5

(***************************************************************************)
(* JavaScript values.                                                      *)
(***************************************************************************)
Undef == <<"undefined">>
Null == <<"null">>
Str(s) == <<"string", s>>
Num(n) == <<"number", n>>
Bool(b) == <<"boolean", b>>
Arr(elems) == <<"array", elems>>
Obj(members) == <<"object", members>>
\* the string holding the hexadecimal MD5 digest of a text
Hex(text) == <<"md5hex", text>>
\* the string holding the hexadecimal SHA-256 digest of a text
Hex256(text) == <<"sha256hex", text>>

IsObj(v) == v[1] = "object"
IsArr(v) == v[1] = "array"
IsNum(v) == v[1] = "number"
IsStr(v) == v[1] \in {"string", "md5hex", "sha256hex"}

\* ToBoolean
Truthy(v) ==
  CASE v[1] = "undefined" -> FALSE
    [] v[1] = "null" -> FALSE
    [] v[1] = "string" -> v[2] # ""
    [] v[1] = "number" -> v[2] # 0
    [] v[1] = "boolean" -> v[2]
    [] OTHER -> TRUE

\* a || b
Or(a, b) == IF Truthy(a) THEN a ELSE b

HasKey(o, k) == IsObj(o) /\ \E i \in 1..Len(o[2]) : o[2][i][1] = k

\* o.k ; a property read of a primitive other than undefined/null is undefined
Get(o, k) ==
  IF HasKey(o, k)
    THEN o[2][CHOOSE i \in 1..Len(o[2]) : o[2][i][1] = k][2]
    ELSE Undef

\* o.k = v : an existing key keeps its place, a new key goes last
Set(o, k, v) ==
  IF HasKey(o, k)
    THEN Obj([i \in 1..Len(o[2]) |-> IF o[2][i][1] = k THEN <<k, v>> ELSE o[2][i]])
    ELSE Obj(Append(o[2], <<k, v>>))

\* delete o.k
Delete(o, k) == Obj(SelectSeq(o[2], LAMBDA m : m[1] # k))

\* { ...a, k1: v1, ... } with the keys of b written after the spread
Spread(a, b) ==
  LET F[n \in 0..Len(b)] ==
        IF n = 0 THEN (IF IsObj(a) THEN a ELSE Obj(<<>>))
        ELSE Set(F[n - 1], b[n][1], b[n][2])
  IN F[Len(b)]

(***************************************************************************)
(* Text alphabet: the strings and numbers that occur in recipes and        *)
(* payloads.  JSON.parse reads a literal back to the value that prints it. *)
(***************************************************************************)
RECURSIVE Rep(_, _)
Rep(s, n) ==
  IF n = 0 THEN ""
  ELSE LET h == Rep(s, n \div 2)
       IN IF n % 2 = 0 THEN h \o h ELSE h \o h \o s

LongText == Rep("x", FillLen)
LongerText == Rep("x", FillLen + 1)
\* a text that no link has room for
HugeText == Rep("x", MAX_LINK_SIZE)

Titles == {"Tea", "Soup"}
Bodies == {"water, leaves", "steep", LongText, LongerText}
Ids == {"r1", "r2"}
FreshIds == {"n" \o ToString(k) : k \in 1..(MaxRecipes + 1)}
Strings ==
  Titles \cup Bodies \cup Ids \cup FreshIds
    \cup {"", APP_VERSION, "Easy", "url", "manual", "https://example.com/tea", "0bad",
          "dark", "token"}
    \cup {ToString(t) : t \in 1..MaxTime}
Numbers == (0 - 1)..(MaxShareVersion + MaxTime + 1)

Quote(s) == "\"" \o s \o "\""

\* JSON text: <<"lit", literal>>, <<"dig">> (a quoted 32-digit digest),
\* <<"dig256">> (a quoted 64-digit digest),
\* <<"obj", members>>, <<"arr", elements>>, <<"raw", n>> (n characters that
\* are not JSON)
RECURSIVE Stringify(_)
Stringify(v) ==
  CASE v[1] = "string" -> <<"lit", Quote(v[2])>>
    [] v[1] = "number" -> <<"lit", ToString(v[2])>>
    [] v[1] = "boolean" -> <<"lit", IF v[2] THEN "true" ELSE "false">>
    [] v[1] = "null" -> <<"lit", "null">>
    [] v[1] = "md5hex" -> <<"dig", v[2]>>
    [] v[1] = "sha256hex" -> <<"dig256", v[2]>>
    [] v[1] = "array" ->
         <<"arr", [i \in 1..Len(v[2]) |->
                     IF v[2][i] = Undef THEN <<"lit", "null">> ELSE Stringify(v[2][i])]>>
    [] v[1] = "object" ->
         LET kept == SelectSeq(v[2], LAMBDA m : m[2] # Undef)
         IN <<"obj", [i \in 1..Len(kept) |-> <<kept[i][1], Stringify(kept[i][2])>>]>>

RECURSIVE SumLen(_, _)
\* the characters of a JSON text
RECURSIVE JsonLen(_)
JsonLen(t) ==
  CASE t[1] = "lit" -> Len(t[2])
    [] t[1] = "dig" -> 34
    [] t[1] = "dig256" -> 66
    [] t[1] = "raw" -> t[2]
    [] t[1] = "arr" ->
         2 + SumLen([i \in 1..Len(t[2]) |-> JsonLen(t[2][i])], Len(t[2]))
           + (IF Len(t[2]) > 1 THEN Len(t[2]) - 1 ELSE 0)
    [] t[1] = "obj" ->
         2 + SumLen([i \in 1..Len(t[2]) |-> Len(t[2][i][1]) + 3 + JsonLen(t[2][i][2])],
                    Len(t[2]))
           + (IF Len(t[2]) > 1 THEN Len(t[2]) - 1 ELSE 0)

SumLen(s, n) == IF n = 0 THEN 0 ELSE s[n] + SumLen(s, n - 1)

SyntaxError == <<"SyntaxError">>

ParseLiteral(s) ==
  IF s = "null" THEN Null
  ELSE IF s = "true" THEN Bool(TRUE)
  ELSE IF s = "false" THEN Bool(FALSE)
  ELSE IF \E n \in Numbers : ToString(n) = s
    THEN Num(CHOOSE n \in Numbers : ToString(n) = s)
  ELSE IF \E x \in Strings : Quote(x) = s
    THEN Str(CHOOSE x \in Strings : Quote(x) = s)
  ELSE SyntaxError

\* JSON.parse; SyntaxError stands for the exception
RECURSIVE JsonParse(_)
JsonParse(t) ==
  CASE t[1] = "lit" -> ParseLiteral(t[2])
    [] t[1] = "dig" -> Hex(t[2])
    [] t[1] = "dig256" -> Hex256(t[2])
    [] t[1] = "raw" -> SyntaxError
    [] t[1] = "arr" ->
         LET els == [i \in 1..Len(t[2]) |-> JsonParse(t[2][i])]
         IN IF \E i \in 1..Len(els) : els[i] = SyntaxError THEN SyntaxError ELSE Arr(els)
    [] t[1] = "obj" ->
         LET ms == [i \in 1..Len(t[2]) |-> <<t[2][i][1], JsonParse(t[2][i][2])>>]
         IN IF \E i \in 1..Len(ms) : ms[i][2] = SyntaxError THEN SyntaxError ELSE Obj(ms)

\* CryptoJS.MD5(text).toString()
MD5(text) == Hex(text)

\* Crypto.digestStringAsync(SHA256, text)
SHA256(text) == Hex256(text)

(***************************************************************************)
(* Base64.  A token is <<"b64", text>> (the encoding of a text: 4           *)
(* characters for every 3 bytes, padded) or <<"junk", n>> (n characters    *)
(* that decode to nothing readable).                                       *)
(***************************************************************************)
Base64Encode(text) == <<"b64", text>>
TokenLen(tok) == IF tok[1] = "b64" THEN 4 * ((JsonLen(tok[2]) + 2) \div 3) ELSE tok[2]
\* atob / react-native-base64 decode; junk comes out as text that is not JSON
Base64Decode(tok) == IF tok[1] = "b64" THEN tok[2] ELSE <<"raw", tok[2]>>

\* a link is its head (everything up to the token) and its token
MkLink(head, tok) == [head |-> head, token |-> tok]
\* variant: the length of the part after the prefix
LinkLen_TokenOnly(link) == TokenLen(link.token)

\* deepLink.length
LinkLen(link) == Len(link.head) + TokenLen(link.token)
StartsWith(link, prefix) == link.head = prefix

(***************************************************************************)
(* State.                                                                  *)
(***************************************************************************)
VARIABLES
  platform,      \* Platform.OS: "web" or "native"
  btoaDefined,   \* typeof btoa !== 'undefined' (and atob with it)
  db,            \* database.ts `db`: "null", "sqlite" or "web"
  isWebFallback, \* database.ts `isWebFallback`
  tables,        \* tables and triggers of the SQLite file
  schema_info,   \* versions recorded in table schema_info
  sqlRecipes,    \* rows of table recipes, oldest first
  asyncRecipes,  \* AsyncStorage key 'recipes': Undef or the stored array
  upDone,        \* history: committed forward actions, per version
  userPreferences, \* web: AsyncStorage key 'user_preferences' (Undef or the
                 \* stored object); sqlite: rows of table user_preferences
  localFiles,    \* documentDirectory: file name (by timestamp) -> content
  driveFiles,    \* backup files on Google Drive, newest first
  call,          \* the operation in flight and its outcome, or Idle
  callers        \* the initDatabase() invocations suspended at an await

vars == <<platform, btoaDefined, db, isWebFallback, tables, schema_info,
          sqlRecipes, asyncRecipes, upDone, userPreferences, localFiles,
          driveFiles, call, callers>>

Idle == [op |-> "idle"]

\* the components that call initDatabase() on their own: the root layout at
\* start-up and a screen's first query
MaxCallers == 2
Callers == 1..MaxCallers

\* an initDatabase() invocation: where it is suspended, the version its
\* runMigrations read, what it returned and by which return statement
NotCalled == [pc |-> "idle", currentVersion |-> 0, got |-> "null", via |-> ""]

\* the store as the operations below read and write it
World ==
  [platform |-> platform, db |-> db, isWebFallback |-> isWebFallback,
   tables |-> tables, schema_info |-> schema_info, sqlRecipes |-> sqlRecipes,
   asyncRecipes |-> asyncRecipes, upDone |-> upDone,
   userPreferences |-> userPreferences]

(***************************************************************************)
(* MigrationSystem.                                                        *)
(***************************************************************************)
\* getMigrations(): the ladder, in the order the list is written
Migrations == << [version |-> 1, down |-> TRUE] >>

\* the objects migration v creates, statement by statement
UpStatements(v) ==
  IF v = 1
    THEN <<"schema_info", "recipes", "recipe_images", "user_preferences",
           "recipes_fts", "recipes_fts_insert", "recipes_fts_delete",
           "recipes_fts_update">>
    ELSE <<>>

SetMax(S) == CHOOSE x \in S : \A y \in S : y <= x

\* getLatestVersion()
GetLatestVersion == SetMax({Migrations[i].version : i \in 1..Len(Migrations)})

\* variant: the recorded versions are not read
GetCurrentVersion_Zero(w) == 0

\* getCurrentVersion(): MAX(version), 0 for no row and for no table
GetCurrentVersion(w) ==
  IF "schema_info" \notin w.tables \/ w.schema_info = {} THEN 0
  ELSE SetMax(w.schema_info)

\* a fault is the statement of migration `version` that fails: 0 none,
\* k the k-th statement of up, Len + 1 the INSERT into schema_info
NoFault == [version |-> 0, at |-> 0]
Faults ==
  {NoFault} \cup
  {[version |-> Migrations[i].version, at |-> k] :
     i \in 1..Len(Migrations), k \in 1..(Len(UpStatements(1)) + 1)}

Cause(fault) == "statement " \o ToString(fault.at)
FailedMessage(v, cause) == "Migration " \o ToString(v) \o " failed: " \o cause

\* variant: a failed task's writes stay in the file
WithTransaction_NoRollback(before, written, ok) == written

\* db.withTransactionAsync: COMMIT keeps what the task wrote, ROLLBACK
\* restores the file as it was at BEGIN
WithTransaction(before, written, ok) == IF ok THEN written ELSE before

\* variant: the version record is not written
Recorded_Skipped(records, version) == records

\* INSERT OR REPLACE INTO schema_info (version, ...) VALUES (migration.version, ...)
Recorded(records, version) == records \cup {version}

\* one pass of the loop body for a pending migration m (lines 330-367)
RunStep(m, st, fault) ==
  LET stmts == UpStatements(m.version)
      fails == fault.version = m.version /\ fault.at > 0
      ran == IF fails /\ fault.at <= Len(stmts) THEN fault.at - 1 ELSE Len(stmts)
      created == {stmts[i] : i \in 1..ran}
      recorded == ~fails
      written == [tables |-> st.tables \cup created,
                  schema_info |-> IF recorded THEN Recorded(st.schema_info, m.version)
                                  ELSE st.schema_info]
      file == WithTransaction([tables |-> st.tables, schema_info |-> st.schema_info],
                              written, ~fails)
      events == <<<<"begin", m.version>>, <<"up", m.version>>>>
                  \o (IF recorded THEN <<<<"record", m.version>>, <<"commit", m.version>>>>
                      ELSE <<<<"rollback", m.version>>>>)
  IN [tables |-> file.tables,
      schema_info |-> file.schema_info,
      upDone |-> IF fails THEN st.upDone
                 ELSE [st.upDone EXCEPT ![m.version] = @ + 1],
      results |-> Append(st.results,
                         [version |-> m.version, success |-> ~fails,
                          error |-> IF fails THEN Cause(fault) ELSE ""]),
      log |-> st.log \o events,
      thrown |-> IF fails THEN FailedMessage(m.version, Cause(fault)) ELSE ""]

\* for (const migration of this.migrations) if (migration.version > currentVersion)
RECURSIVE MigrationLoop(_, _, _, _)
MigrationLoop(i, st, currentVersion, fault) ==
  IF i > Len(Migrations) THEN st
  ELSE IF Migrations[i].version > currentVersion
    THEN LET After(r) ==
               IF r.thrown # "" THEN r ELSE MigrationLoop(i + 1, r, currentVersion, fault)
         IN After(RunStep(Migrations[i], st, fault))
    ELSE MigrationLoop(i + 1, st, currentVersion, fault)

\* MigrationSystem.runMigrations(): the file afterwards, the result list,
\* the exception ("" when it returns), the version read at the start and
\* the events in the order they happened
RunMigrations(w, fault) ==
  LET ensured == w.tables \cup {"schema_info"}
      st0 == [tables |-> ensured, schema_info |-> w.schema_info,
              upDone |-> w.upDone, results |-> <<>>, log |-> <<>>, thrown |-> ""]
      Outcome(currentVersion, st) ==
        [w |-> [w EXCEPT !.tables = st.tables, !.schema_info = st.schema_info,
                         !.upDone = st.upDone],
         results |-> st.results, thrown |-> st.thrown, log |-> st.log,
         before |-> currentVersion]
      From(currentVersion) ==
        Outcome(currentVersion,
                IF currentVersion >= GetLatestVersion THEN st0
                ELSE MigrationLoop(1, st0, currentVersion, fault))
  IN From(GetCurrentVersion([w EXCEPT !.tables = ensured]))

(***************************************************************************)
(* database.ts                                                             *)
(***************************************************************************)
\* initWebDatabase(): empty collections unless they exist
InitWebDatabase(w) ==
  [w EXCEPT !.asyncRecipes = IF Truthy(@) THEN @ ELSE Arr(<<>>),
            !.userPreferences.web = IF Truthy(@) THEN @ ELSE Obj(<<>>)]

\* what initDatabase does to the store: `open` tells whether
\* SQLite.openDatabaseAsync succeeds, `fault` which migration statement fails.
\* mig is the MigrationSystem.runMigrations outcome, ran tells whether it ran.
InitDatabase(w, open, fault) ==
  LET none == [results |-> <<>>, thrown |-> "", log |-> <<>>, before |-> 0]
      fallback(x) == [InitWebDatabase(x) EXCEPT !.isWebFallback = TRUE, !.db = "web"]
  IN IF w.db # "null" THEN [w |-> w, ran |-> FALSE, mig |-> none]
     ELSE IF w.platform = "web"
       THEN [w |-> fallback(w), ran |-> FALSE, mig |-> none]
     ELSE IF ~open
       THEN [w |-> fallback(w), ran |-> FALSE, mig |-> none]
     ELSE LET Opened(m) ==
                [w |-> IF m.thrown # "" THEN fallback(m.w) ELSE m.w,
                 ran |-> TRUE,
                 mig |-> [results |-> m.results, thrown |-> m.thrown,
                          log |-> m.log, before |-> m.before]]
          IN Opened(RunMigrations([w EXCEPT !.db = "sqlite"], fault))

\* getMigrationInfo() after its initDatabase
MigrationInfo(w) ==
  IF w.isWebFallback
    THEN [currentVersion |-> 1, latestVersion |-> 1]
    ELSE [currentVersion |-> GetCurrentVersion(w), latestVersion |-> GetLatestVersion]

\* the recipes table's columns, in the order of CREATE TABLE
Columns ==
  <<"id", "title", "description", "ingredients", "instructions", "source_url",
    "servings", "prep_time", "cook_time", "difficulty", "cuisine", "tags",
    "rating", "is_favorite", "notes", "created_at", "modified_at">>

\* a bound parameter: undefined is stored as NULL
SqlParam(v) == IF v = Undef THEN Null ELSE v

\* the row createRecipe inserts
InsertedRow(recipe, id, now) ==
  LET bound == [c \in {Columns[i] : i \in 1..Len(Columns)} |->
        CASE c = "id" -> Str(id)
          [] c = "tags" -> <<"text", Stringify(Or(Get(recipe, "tags"), Arr(<<>>)))>>
          [] c = "is_favorite" ->
               Num(IF Truthy(Get(recipe, "is_favorite")) THEN 1 ELSE 0)
          [] c \in {"created_at", "modified_at"} -> Num(now)
          [] OTHER -> SqlParam(Get(recipe, c))]
  IN Obj([i \in 1..Len(Columns) |-> <<Columns[i], bound[Columns[i]]>>])

\* the object createRecipe keeps on the AsyncStorage backend, as it reads
\* back from JSON
StoredObject(recipe, id, now) ==
  JsonParse(Stringify(
    Spread(recipe, << <<"id", Str(id)>>, <<"created_at", Num(now)>>,
                      <<"modified_at", Num(now)>>,
                      <<"tags", Or(Get(recipe, "tags"), Arr(<<>>))>>,
                      <<"is_favorite", Or(Get(recipe, "is_favorite"), Bool(FALSE))>> >>)))

\* generateId(): a fresh identifier
FreshId(w) ==
  "n" \o ToString(Len(w.sqlRecipes)
                    + (IF IsArr(w.asyncRecipes) THEN Len(w.asyncRecipes[2]) ELSE 0) + 1)

\* createRecipe after its initDatabase
CreateRecipe(w, recipe, now) ==
  IF w.isWebFallback
    THEN [w EXCEPT !.asyncRecipes =
            Arr(Append(@[2], StoredObject(recipe, FreshId(w), now)))]
    ELSE [w EXCEPT !.sqlRecipes = Append(@, InsertedRow(recipe, FreshId(w), now))]

\* sort((a, b) => b.modified_at - a.modified_at) / ORDER BY modified_at DESC
RECURSIVE SortByModifiedDesc(_)
SortByModifiedDesc(s) ==
  IF Len(s) <= 1 THEN s
  ELSE LET rest == SortByModifiedDesc(Tail(s))
           key(r) == Get(r, "modified_at")[2]
           before == SelectSeq(rest, LAMBDA r : key(r) > key(Head(s)))
           after == SelectSeq(rest, LAMBDA r : key(r) <= key(Head(s)))
       IN before \o <<Head(s)>> \o after

\* a row as getAllRecipes hands it out
ReadRow(row) ==
  Spread(row, << <<"tags", IF Truthy(Get(row, "tags"))
                              THEN JsonParse(Get(row, "tags")[2]) ELSE Arr(<<>>)>>,
                 <<"is_favorite", Bool(Truthy(Get(row, "is_favorite")))>> >>)

\* getAllRecipes() after its initDatabase
GetAllRecipes(w) ==
  IF w.isWebFallback
    THEN SortByModifiedDesc(w.asyncRecipes[2])
    ELSE LET rows == SortByModifiedDesc(w.sqlRecipes)
         IN [i \in 1..Len(rows) |-> ReadRow(rows[i])]

(***************************************************************************)
(* MigrationSystem: validateSchema and rollbackToVersion.                  *)
(***************************************************************************)
\* validateSchema, lines 457-463: the recorded version against the ladder
VersionErrors(currentVersion, latestVersion) ==
  IF currentVersion < latestVersion
    THEN <<"Schema version " \o ToString(currentVersion)
             \o " is behind latest version " \o ToString(latestVersion)>>
    ELSE <<>>

\* validateSchema(): bindStrict tells whether the driver refuses the
\* parameter that the recipes_fts query passes without a placeholder
ValidateSchema(w, bindStrict) ==
  LET requiredTables == <<"recipes", "recipe_images", "user_preferences", "schema_info">>
      requiredColumns == <<"id", "title", "description", "ingredients", "instructions",
                           "created_at", "modified_at", "is_favorite">>
      existingColumns == IF "recipes" \in w.tables THEN Columns ELSE <<>>
      Has(seq, x) == \E i \in 1..Len(seq) : seq[i] = x
      Missing(seq, lacks(_), text(_)) ==
        LET lacking == SelectSeq(seq, lacks)
        IN [i \in 1..Len(lacking) |-> text(lacking[i])]
      NoTable(t) == t \notin w.tables
      TableText(t) == "Required table '" \o t \o "' is missing"
      NoColumn(c) == ~Has(existingColumns, c)
      ColumnText(c) == "Required column '" \o c \o "' is missing from recipes table"
      tableErrors == Missing(requiredTables, NoTable, TableText)
      ftsErrors == IF "recipes_fts" \in w.tables THEN <<>>
                   ELSE <<"Full-text search table 'recipes_fts' is missing">>
      Result(errors) == [valid |-> errors = <<>>, errors |-> errors]
  IN IF bindStrict
       THEN Result(tableErrors \o <<"Schema validation failed: bind">>)
       ELSE Result(tableErrors \o ftsErrors
                     \o Missing(requiredColumns, NoColumn, ColumnText)
                     \o VersionErrors(GetCurrentVersion(w), GetLatestVersion))

\* validateDatabaseSchema() after its initDatabase
ValidateDatabaseSchema(w, bindStrict) ==
  IF w.isWebFallback THEN [valid |-> TRUE, errors |-> <<>>]
  ELSE ValidateSchema(w, bindStrict)

\* the objects the down of migration v drops, every one IF EXISTS
DownStatements(v) ==
  IF v = 1
    THEN <<"recipes_fts_update", "recipes_fts_delete", "recipes_fts_insert",
           "recipes_fts", "user_preferences", "recipe_images", "recipes",
           "schema_info">>
    ELSE <<>>

\* the database file as a transaction sees it
FileOf(w) ==
  [tables |-> w.tables, schema_info |-> w.schema_info, sqlRecipes |-> w.sqlRecipes,
   preferences |-> w.userPreferences.sqlite]

\* DELETE FROM schema_info WHERE version = ?: fails when the table is gone
Unrecorded(file, version) ==
  IF "schema_info" \in file.tables
    THEN [ok |-> TRUE, file |-> [file EXCEPT !.schema_info = @ \ {version}]]
    ELSE [ok |-> FALSE, file |-> file]

\* migration.down(db): the tables go, and their rows with them
Down(file, version) ==
  LET dropped == {DownStatements(version)[i] : i \in 1..Len(DownStatements(version))}
  IN [tables |-> file.tables \ dropped,
      schema_info |-> IF "schema_info" \in dropped THEN {} ELSE file.schema_info,
      sqlRecipes |-> IF "recipes" \in dropped THEN <<>> ELSE file.sqlRecipes,
      preferences |-> IF "user_preferences" \in dropped THEN Obj(<<>>)
                      ELSE file.preferences]

\* rollbackToVersion, lines 489-511: the migrations above the target, from
\* the highest down (the ladder is written in ascending order); st holds the
\* file, the versions whose transaction committed and the exception
RECURSIVE RollbackOn_SkipMissing(_, _, _, _, _)
\* variant: a step without a reverse action is passed over
RollbackOn_SkipMissing(migrations, i, st, targetVersion, currentVersion) ==
  IF i = 0 \/ st.thrown # "" THEN st
  ELSE IF /\ migrations[i].version > targetVersion
          /\ migrations[i].version <= currentVersion
          /\ migrations[i].down
    THEN LET Ended(r) ==
               [file |-> WithTransaction(st.file, r.file, r.ok),
                done |-> IF r.ok THEN Append(st.done, migrations[i].version)
                         ELSE st.done,
                thrown |-> IF r.ok THEN "" ELSE "no such table: schema_info"]
         IN RollbackOn_SkipMissing(migrations, i - 1,
                                   Ended(Unrecorded(Down(st.file, migrations[i].version),
                                                    migrations[i].version)),
                                   targetVersion, currentVersion)
  ELSE RollbackOn_SkipMissing(migrations, i - 1, st, targetVersion, currentVersion)

RECURSIVE RollbackOn(_, _, _, _, _)
\* the loop of rollbackToVersion over the list this.migrations
RollbackOn(migrations, i, st, targetVersion, currentVersion) ==
  IF i = 0 \/ st.thrown # "" THEN st
  ELSE IF migrations[i].version > targetVersion /\ migrations[i].version <= currentVersion
    THEN IF ~migrations[i].down
           THEN [st EXCEPT !.thrown = "Migration " \o ToString(migrations[i].version)
                                        \o " does not support rollback"]
         ELSE LET Ended(r) ==
                    [file |-> WithTransaction(st.file, r.file, r.ok),
                     done |-> IF r.ok THEN Append(st.done, migrations[i].version)
                              ELSE st.done,
                     thrown |-> IF r.ok THEN "" ELSE "no such table: schema_info"]
              IN RollbackOn(migrations, i - 1,
                            Ended(Unrecorded(Down(st.file, migrations[i].version),
                                             migrations[i].version)),
                            targetVersion, currentVersion)
  ELSE RollbackOn(migrations, i - 1, st, targetVersion, currentVersion)

RollbackLoop(i, st, targetVersion, currentVersion) ==
  RollbackOn(Migrations, i, st, targetVersion, currentVersion)

\* rollbackToVersion(targetVersion) of a MigrationSystem whose list of
\* migrations is `migrations`: the store afterwards, the versions rolled
\* back in order and the exception ("" when it returns)
RollbackToVersionOn(migrations, w, targetVersion) ==
  LET currentVersion == GetCurrentVersion(w)
      Ended(st) ==
        [w |-> [w EXCEPT !.tables = st.file.tables,
                         !.schema_info = st.file.schema_info,
                         !.sqlRecipes = st.file.sqlRecipes,
                         !.userPreferences.sqlite = st.file.preferences],
         done |-> st.done, thrown |-> st.thrown, before |-> currentVersion]
  IN IF targetVersion >= currentVersion
       THEN [w |-> w, done |-> <<>>, before |-> currentVersion,
             thrown |-> "Cannot rollback to version " \o ToString(targetVersion)
                          \o " - current version is " \o ToString(currentVersion)]
     ELSE Ended(RollbackOn(migrations, Len(migrations),
                           [file |-> FileOf(w), done |-> <<>>, thrown |-> ""],
                           targetVersion, currentVersion))

\* rollbackToVersion(targetVersion) on the ladder of this build
RollbackToVersion(w, targetVersion) == RollbackToVersionOn(Migrations, w, targetVersion)

(***************************************************************************)
(* sharing.ts                                                              *)
(***************************************************************************)
\* createShareData(recipe) at time now
CreateShareData(recipe, now) ==
  Obj(<< <<"v", Num(CURRENT_VERSION)>>,
         <<"ts", Num(now)>>,
         <<"app", Str(APP_VERSION)>>,
         <<"recipe",
           Obj(<< <<"id", Get(recipe, "id")>>,
                  <<"title", Get(recipe, "title")>>,
                  <<"ingredients", Or(Get(recipe, "ingredients"), Str(""))>>,
                  <<"instructions", Or(Get(recipe, "instructions"), Str(""))>>,
                  <<"cooking_method", Or(Get(recipe, "difficulty"), Null)>>,
                  <<"source_type",
                    IF Truthy(Get(recipe, "source_url")) THEN Str("url") ELSE Str("manual")>>,
                  <<"nutrition", Null>> >>)>> >>)

ShareableKeys ==
  <<"title", "description", "ingredients", "instructions", "servings", "prep_time",
    "cook_time", "difficulty", "cuisine", "tags", "rating", "notes">>

\* createShareableRecipe(recipe)
CreateShareableRecipe(recipe) ==
  LET Signed(shareableData) ==
        Set(shareableData, "checksum", MD5(Stringify(shareableData)))
  IN Signed(Obj([i \in 1..Len(ShareableKeys) |->
                   <<ShareableKeys[i], Get(recipe, ShareableKeys[i])>>]
                \o << <<"version", Num(CURRENT_VERSION)>>, <<"checksum", Str("")>> >>))

Thrown(message) == [ok |-> FALSE, error |-> message, link |-> MkLink("", <<"junk", 0>>)]
Returned(link) == [ok |-> TRUE, error |-> "", link |-> link]

\* the size check of generateDeepLink and generateLegacyDeepLink
CheckedLink(deepLink) ==
  IF LinkLen(deepLink) > MAX_LINK_SIZE THEN Thrown(TooLarge) ELSE Returned(deepLink)

\* generateDeepLink(recipe): btoa and react-native-base64 agree on ASCII
GenerateDeepLink(recipe, now) ==
  LET shareData == CreateShareData(recipe, now)
      jsonString == Stringify(shareData)
      base64Data == Base64Encode(jsonString)
  IN CheckedLink(MkLink(LinkPrefix, base64Data))

\* generateLegacyDeepLink(recipe): calls btoa whether or not it is defined
GenerateLegacyDeepLink(recipe, now, hasBtoa) ==
  LET deepLinkData == Obj(<< <<"recipe", CreateShareableRecipe(recipe)>>,
                             <<"timestamp", Num(now)>> >>)
      jsonString == Stringify(deepLinkData)
  IN IF ~hasBtoa THEN Thrown("ReferenceError: btoa is not defined")
     ELSE CheckedLink(MkLink(LinkPrefix, Base64Encode(jsonString)))

\* variant: the step to version 2 flips cooking_method between null and
\* 'none'
Transform_Toggle(recipe, toVersion) ==
  IF toVersion \in {2, 3} /\ recipe \in {Undef, Null, <<"TypeError">>} THEN <<"TypeError">>
  ELSE CASE toVersion = 2 ->
              Spread(recipe, << <<"cooking_method",
                                  IF Get(recipe, "cooking_method") = Null
                                    THEN Str("none") ELSE Null>>,
                                <<"source_type", Or(Get(recipe, "source_type"), Str("manual"))>> >>)
         [] toVersion = 3 ->
              Spread(recipe, << <<"nutrition", Or(Get(recipe, "nutrition"), Null)>> >>)
         [] OTHER -> recipe

\* transform(recipe, toVersion); TypeError when recipe is undefined or null
TypeError == <<"TypeError">>
Transform(recipe, toVersion) ==
  IF toVersion \in {2, 3} /\ recipe \in {Undef, Null, TypeError} THEN TypeError
  ELSE CASE toVersion = 2 ->
              Spread(recipe, << <<"cooking_method", Or(Get(recipe, "cooking_method"), Null)>>,
                                <<"source_type", Or(Get(recipe, "source_type"), Str("manual"))>> >>)
         [] toVersion = 3 ->
              Spread(recipe, << <<"nutrition", Or(Get(recipe, "nutrition"), Null)>> >>)
         [] OTHER -> recipe

\* for (let v = from; v <= to; v++) recipe = transform(recipe, v)
RECURSIVE TransformRange(_, _, _)
TransformRange(recipe, from, to) ==
  IF from > to THEN recipe
  ELSE TransformRange(Transform(recipe, from), from + 1, to)

\* variant: one version ahead still passes
Newer_OffByOne(a, b) == IsNum(a) /\ a[2] > b + 1

\* a > b for a share version a and the store's version b
Newer(a, b) == IsNum(a) /\ a[2] > b

Invalid(error, message) ==
  [isValid |-> FALSE, error |-> error, errorMessage |-> message,
   recipe |-> Undef, shareVersion |-> Undef, currentVersion |-> Undef]
\* variant: the recipe is cut down to the fields of format version 1
Valid_CompatibleFields(recipe, shareVersion, currentVersion) ==
  [isValid |-> TRUE, error |-> "", errorMessage |-> "",
   recipe |-> Obj(SelectSeq(recipe[2],
                            LAMBDA m : m[1] \in {"id", "title", "ingredients",
                                                 "instructions"})),
   shareVersion |-> shareVersion, currentVersion |-> Num(currentVersion)]

\* parseDeepLink, lines 358-363
Valid(recipe, shareVersion, currentVersion) ==
  [isValid |-> TRUE, error |-> "", errorMessage |-> "",
   recipe |-> recipe, shareVersion |-> shareVersion, currentVersion |-> Num(currentVersion)]

MSG_CORRUPTED == "Recipe data is corrupted"
MSG_UPDATE_REQUIRED == "Update app to import this recipe"
MSG_CANNOT_READ == "Cannot read this recipe"

\* variant: the title alone decides
IsDuplicate_TitleOnly(existingRecipes, recipe) ==
  \E i \in 1..Len(existingRecipes) :
    Get(existingRecipes[i], "title") = Get(recipe, "title")

\* existingRecipes.some(...): title, ingredients and instructions all ===
IsDuplicate(existingRecipes, recipe) ==
  \E i \in 1..Len(existingRecipes) :
    /\ Get(existingRecipes[i], "title") = Get(recipe, "title")
    /\ Get(existingRecipes[i], "ingredients") = Get(recipe, "ingredients")
    /\ Get(existingRecipes[i], "instructions") = Get(recipe, "instructions")

\* variant: the rating is left out of the digest
LegacyChecksum_NoRating(recipe) ==
  MD5(Stringify(Delete(Delete(Spread(recipe, <<>>), "checksum"), "rating")))

\* the checksum parseDeepLink recomputes over a legacy recipe
LegacyChecksum(recipe) == MD5(Stringify(Delete(Spread(recipe, <<>>), "checksum")))

\* variant: the duplicate check comes before the version check
StoreStages_DuplicateFirst(recipe, shareVersion, w) ==
  LET currentVersion == MigrationInfo(w).currentVersion
  IN IF IsDuplicate(GetAllRecipes(w), recipe)
       THEN Invalid("duplicate", "Already have this recipe")
     ELSE IF Newer(shareVersion, currentVersion)
       THEN Invalid("version_mismatch", MSG_UPDATE_REQUIRED)
     ELSE Valid(recipe, shareVersion, currentVersion)

\* parseDeepLink, lines 329-363: the stages that read the store.  w is the
\* store after the initDatabase of getMigrationInfo.
StoreStages(recipe, shareVersion, w) ==
  LET currentVersion == MigrationInfo(w).currentVersion
  IN IF Newer(shareVersion, currentVersion)
       THEN Invalid("version_mismatch", MSG_UPDATE_REQUIRED)
     ELSE IF IsDuplicate(GetAllRecipes(w), recipe)
       THEN Invalid("duplicate", "Already have this recipe")
     ELSE Valid(recipe, shareVersion, currentVersion)

\* parseDeepLink, lines 211-327: the stages that read the link alone.
\* stage "store" means every one of them passed.
LinkStages(deepLink, hasAtob) ==
  LET done(r) == [stage |-> "done", out |-> r, recipe |-> Undef, shareVersion |-> Undef]
      store(recipe, shareVersion) ==
        [stage |-> "store", out |-> Invalid("", ""), recipe |-> recipe,
         shareVersion |-> shareVersion]
      Versioned(parsed, recipe) ==
        IF ~Truthy(Get(recipe, "id")) \/ ~Truthy(Get(recipe, "title"))
          THEN done(Invalid("invalid", MSG_CANNOT_READ))
          ELSE store(recipe, Get(parsed, "v"))
      Legacy(recipe) ==
        IF ~Truthy(Get(recipe, "title")) \/ ~Truthy(Get(recipe, "checksum"))
          THEN done(Invalid("invalid", MSG_CANNOT_READ))
        ELSE IF LegacyChecksum(recipe) # Get(recipe, "checksum")
          THEN done(Invalid("corrupted", MSG_CORRUPTED))
        ELSE store(recipe, Or(Get(recipe, "version"), Num(1)))
      Shaped(parsed, recipe) ==
        IF parsed = SyntaxError \/ parsed = Null
          THEN done(Invalid("corrupted", MSG_CORRUPTED))
        ELSE IF Truthy(Get(parsed, "v")) /\ Truthy(recipe)
          THEN Versioned(parsed, recipe)
        ELSE IF Truthy(recipe) /\ Truthy(Get(parsed, "timestamp"))
          THEN Legacy(recipe)
        ELSE done(Invalid("corrupted", MSG_CORRUPTED))
      Parsed(parsed) == Shaped(parsed, Get(parsed, "recipe"))
  IN IF ~StartsWith(deepLink, LinkPrefix)
       THEN done(Invalid("invalid", "Invalid deep link format"))
     ELSE IF LinkLen(deepLink) > MAX_LINK_SIZE
       THEN done(Invalid("size_limit", "Link data exceeds size limit"))
     ELSE IF hasAtob /\ deepLink.token[1] = "junk"
       THEN done(Invalid("corrupted", MSG_CORRUPTED))
     ELSE Parsed(JsonParse(Base64Decode(deepLink.token)))

\* parseDeepLink(deepLink): its result, the store afterwards and what the
\* stages that read the link alone made of it
ParseDeepLink(deepLink, hasAtob, w, open, fault) ==
  LET Stored(s, w1) ==
        [out |-> StoreStages(s.recipe, s.shareVersion, w1), w |-> w1, staged |-> s]
      Staged(s) ==
        IF s.stage = "done" THEN [out |-> s.out, w |-> w, staged |-> s]
        ELSE Stored(s, InitDatabase(w, open, fault).w)
  IN Staged(LinkStages(deepLink, hasAtob))

\* variant: the exception is handed on to the caller
Caught_Rethrown(exception) == Invalid("thrown", exception)

\* parseDeepLink, lines 365-372: what the outer catch makes of an exception
Caught(exception) == Invalid("invalid", MSG_CANNOT_READ)

\* the store collaborator of parseDeepLink whose query fails, if any
StoreFaults == {"none", "getMigrationInfo", "getAllRecipes"}

\* parseDeepLink(deepLink) on a store whose queries may fail: getMigrationInfo
\* throws after its initDatabase, or getAllRecipes throws
ParseDeepLinkFailing(deepLink, hasAtob, w, open, fault, storeFault) ==
  LET Stored(s, w1) ==
        [out |-> IF storeFault = "getMigrationInfo"
                   THEN Caught("getMigrationInfo failed")
                 ELSE IF /\ storeFault = "getAllRecipes"
                         /\ ~Newer(s.shareVersion, MigrationInfo(w1).currentVersion)
                   THEN Caught("getAllRecipes failed")
                 ELSE StoreStages(s.recipe, s.shareVersion, w1),
         w |-> w1, staged |-> s]
      Staged(s) ==
        IF s.stage = "done" THEN [out |-> s.out, w |-> w, staged |-> s]
        ELSE Stored(s, InitDatabase(w, open, fault).w)
  IN Staged(LinkStages(deepLink, hasAtob))

\* handleImport(data): its result and the store afterwards; a member the
\* result leaves out reads FALSE (ok, partial) or Undef (recipe)
HandleImport(data, hasAtob, w, open, fault) ==
  LET failed(error, partial, x) ==
        [out |-> [ok |-> FALSE, recipe |-> Undef, error |-> error, partial |-> partial],
         w |-> x]
      Transformed(recipe, w1) ==
        IF recipe = TypeError THEN failed("CORRUPTED", FALSE, w1)
        ELSE [out |-> [ok |-> TRUE, recipe |-> recipe, error |-> "", partial |-> FALSE],
              w |-> w1]
      Versions(shareData, shareVersion, currentVersion, w1) ==
        IF shareVersion[2] > currentVersion
          THEN failed("UPDATE_REQUIRED", TRUE, w1)
        ELSE Transformed(TransformRange(Get(shareData, "recipe"), shareVersion[2] + 1,
                                        currentVersion), w1)
      Informed(shareData, w1) ==
        IF shareData \in {Null, Undef} THEN failed("CORRUPTED", FALSE, w1)
        ELSE Versions(shareData, Or(Get(shareData, "v"), Num(1)),
                      MigrationInfo(w1).currentVersion, w1)
      Decoded(shareData) ==
        IF shareData = SyntaxError THEN failed("CORRUPTED", FALSE, w)
        ELSE Informed(shareData, InitDatabase(w, open, fault).w)
  IN IF hasAtob /\ data[1] = "junk" THEN failed("CORRUPTED", FALSE, w)
     ELSE Decoded(JsonParse(Base64Decode(data)))

(***************************************************************************)
(* backupVersioning.ts                                                     *)
(***************************************************************************)
\* applyMigration(data, toVersion); TypeError when a record is undefined or
\* null
ApplyMigration(data, toVersion) ==
  LET database == Get(data, "database")
      Step2(recipe) ==
        Spread(recipe,
               << <<"cooking_method", Or(Get(recipe, "cooking_method"), Null)>>,
                  <<"source_type",
                    Or(Get(recipe, "source_type"),
                       IF Truthy(Get(recipe, "source_url")) THEN Str("url")
                       ELSE Str("manual"))>> >>)
      Step3(recipe) ==
        Spread(recipe, << <<"nutrition", Or(Get(recipe, "nutrition"), Null)>> >>)
      Mapped(step(_)) ==
        IF \E i \in 1..Len(database[2]) : database[2][i] \in {Undef, Null}
          THEN TypeError
          ELSE Set(data, "database",
                   Arr([i \in 1..Len(database[2]) |-> step(database[2][i])]))
  IN IF data = TypeError THEN TypeError
     ELSE IF toVersion \in {2, 3} /\ Truthy(database) /\ IsArr(database)
       THEN (IF toVersion = 2 THEN Mapped(Step2) ELSE Mapped(Step3))
     ELSE data

\* for (let version = from; version <= currentVersion; version++)
RECURSIVE MigrationRange(_, _, _)
MigrationRange(data, from, currentVersion) ==
  IF from > currentVersion THEN data
  ELSE MigrationRange(ApplyMigration(data, from), from + 1, currentVersion)

\* migrateBackupData(backupData, fromVersion) on a store at currentVersion;
\* the copy { ...backupData } of an array has its indices for keys
MigrateBackupData(backupData, fromVersion, currentVersion) ==
  LET copy == IF backupData = TypeError THEN TypeError
              ELSE IF IsArr(backupData)
                THEN Obj([i \in 1..Len(backupData[2]) |->
                            <<ToString(i - 1), backupData[2][i]>>])
              ELSE Spread(backupData, <<>>)
  IN MigrationRange(copy, fromVersion + 1, currentVersion)

\* variant: the older-version branch starts one version too low
CheckBackupCompatibility_Gap(backupVersion, currentVersion) ==
  IF backupVersion = Num(currentVersion)
    THEN [compatible |-> TRUE, requiresUpdate |-> FALSE, dataLoss |-> FALSE,
          message |-> "Backup is fully compatible"]
  ELSE IF IsNum(backupVersion) /\ backupVersion[2] > currentVersion
    THEN [compatible |-> FALSE, requiresUpdate |-> TRUE, dataLoss |-> TRUE,
          message |-> "Backup from newer app version. Update app to restore fully."]
  ELSE IF IsNum(backupVersion) /\ backupVersion[2] < currentVersion - 1
    THEN [compatible |-> TRUE, requiresUpdate |-> FALSE, dataLoss |-> FALSE,
          message |-> "Backup from older version. Will be migrated during restore."]
  ELSE [compatible |-> FALSE, requiresUpdate |-> FALSE, dataLoss |-> TRUE,
        message |-> "Unknown backup version"]

NoUpdate(message) ==
  [compatible |-> TRUE, requiresUpdate |-> FALSE, dataLoss |-> FALSE, message |-> message]

\* checkBackupCompatibility(metadata) after its getMigrationInfo:
\* backupVersion is metadata.schema, a comparison with undefined is false
CheckBackupCompatibility(backupVersion, currentVersion) ==
  IF backupVersion = Num(currentVersion)
    THEN NoUpdate("Backup is fully compatible")
  ELSE IF IsNum(backupVersion) /\ backupVersion[2] > currentVersion
    THEN [compatible |-> FALSE, requiresUpdate |-> TRUE, dataLoss |-> TRUE,
          message |-> "Backup from newer app version. Update app to restore fully."]
  ELSE IF IsNum(backupVersion) /\ backupVersion[2] < currentVersion
    THEN NoUpdate("Backup from older version. Will be migrated during restore.")
  ELSE [compatible |-> FALSE, requiresUpdate |-> FALSE, dataLoss |-> TRUE,
        message |-> "Unknown backup version"]

\* typeof
TypeOf(v) ==
  CASE IsStr(v) -> "string"
    [] IsNum(v) -> "number"
    [] v[1] = "boolean" -> "boolean"
    [] v[1] = "undefined" -> "undefined"
    [] OTHER -> "object"

\* v.length: an array has one, an object of the backup file has none
Length(v) == IF IsArr(v) THEN Num(Len(v[2])) ELSE Undef

\* a value inside a template literal
Show(v) ==
  CASE IsNum(v) -> ToString(v[2])
    [] v[1] = "string" -> v[2]
    [] v[1] = "undefined" -> "undefined"
    [] v[1] = "null" -> "null"
    [] OTHER -> "[object Object]"

\* variant: only a list longer than the count is reported
CountDiffers_Longer(database, count) ==
  IsArr(database) /\ IsNum(count) /\ Len(database[2]) > count[2]

\* backupData.database && backupData.database.length !== count
CountDiffers(database, count) == Truthy(database) /\ Length(database) # count

CountMismatch(count, length) ==
  "Recipe count mismatch: metadata says " \o Show(count) \o ", found " \o Show(length)

\* validateBackupIntegrity(backupData)
ValidateBackupIntegrity(backupData) ==
  LET When(cond, error) == IF cond THEN <<error>> ELSE <<>>
      Structure(metadata, database) ==
        When(~Truthy(Get(metadata, "created")) \/ TypeOf(Get(metadata, "created")) # "number",
             "Invalid metadata: missing or invalid created timestamp")
        \o When(~Truthy(Get(metadata, "app")) \/ TypeOf(Get(metadata, "app")) # "string",
                "Invalid metadata: missing or invalid app version")
        \o When(TypeOf(Get(metadata, "schema")) # "number",
                "Invalid metadata: missing or invalid schema version")
        \o When(TypeOf(Get(metadata, "count")) # "number",
                "Invalid metadata: missing or invalid recipe count")
        \o When(CountDiffers(database, Get(metadata, "count")),
                CountMismatch(Get(metadata, "count"), Length(database)))
      Errors(metadata, database, timestamp) ==
        When(~Truthy(metadata), "Missing backup metadata")
        \o When(~Truthy(database) \/ ~IsArr(database), "Invalid or missing recipe database")
        \o When(~Truthy(timestamp) \/ TypeOf(timestamp) # "number",
                "Invalid or missing timestamp")
        \o (IF Truthy(metadata) THEN Structure(metadata, database) ELSE <<>>)
      Result(errors) == [valid |-> Len(errors) = 0, errors |-> errors]
  IN Result(Errors(Get(backupData, "metadata"), Get(backupData, "database"),
                   Get(backupData, "timestamp")))

(***************************************************************************)
(* Inputs.                                                                 *)
(***************************************************************************)
\* the object the add screen hands to createRecipe (add.tsx lines 140-155):
\* blank fields are undefined
RecipeData(title, ingredients, instructions, source_url, difficulty) ==
  Obj(<< <<"title", Str(title)>>, <<"description", Undef>>,
         <<"ingredients", ingredients>>, <<"instructions", instructions>>,
         <<"source_url", source_url>>, <<"servings", Undef>>,
         <<"prep_time", Undef>>, <<"cook_time", Undef>>,
         <<"difficulty", difficulty>>, <<"cuisine", Undef>>,
         <<"tags", Arr(<<>>)>>, <<"rating", Undef>>,
         <<"is_favorite", Bool(FALSE)>>, <<"notes", Undef>> >>)

\* what the user of this store enters
StoreForms ==
  {RecipeData("Tea", Str("water, leaves"), Str("steep"), Undef, Str("Easy")),
   RecipeData("Tea", Undef, Undef, Str("https://example.com/tea"), Undef)}

\* what users of any store enter
RecipeForms ==
  StoreForms \cup
  {RecipeData("Soup", Str("water, leaves"), Str(LongText), Undef, Undef),
   RecipeData("Soup", Str("water, leaves"), Str(LongerText), Undef, Undef)}

Times == 1..MaxTime

\* recipes as a store of this app hands them out, on either backend
SharedRecipes ==
  {ReadRow(InsertedRow(f, "r1", now)) : f \in RecipeForms, now \in Times}
    \cup {StoredObject(f, "r1", now) : f \in RecipeForms, now \in Times}

\* the environment of an implicit initDatabase
InitChoices ==
  {[open |-> o, fault |-> f] : o \in BOOLEAN, f \in Faults} \ 
    {[open |-> FALSE, fault |-> f] : f \in Faults \ {NoFault}}
ImplicitChoices ==
  {c \in InitChoices : c.fault = NoFault \/ c.fault.at = 1}
\* initDatabase returns at once when db is set, and takes no choice then
ChoicesAt(handle) ==
  IF handle = "null" THEN ImplicitChoices
  ELSE {[open |-> TRUE, fault |-> NoFault]}

\* versioned payloads as any peer may send them: the fields of FIELDS[v]
PeerShareData(v, id, title, ingredients, instructions, now) ==
  Obj(<< <<"v", Num(v)>>, <<"ts", Num(now)>>, <<"app", Str(APP_VERSION)>>,
         <<"recipe",
           Obj(<< <<"id", Str(id)>>, <<"title", Str(title)>>,
                  <<"ingredients", ingredients>>, <<"instructions", instructions>> >>
               \o (IF v >= 2 THEN << <<"cooking_method", Null>>,
                                     <<"source_type", Str("manual")>> >> ELSE <<>>)
               \o (IF v >= 3 THEN << <<"nutrition", Null>> >> ELSE <<>>))>> >>)

PeerPayloads ==
  {PeerShareData(v, head[1], head[2], body[1], body[2], 1) :
     v \in 0..MaxShareVersion,
     head \in {<<"r1", "Tea">>, <<"", "Tea">>, <<"r1", "">>},
     body \in {<<Str("water, leaves"), Str("steep")>>,
               <<Str("water, leaves"), Undef>>, <<Undef, Undef>>}}

\* the payloads handed to the import screen
HandledPayloads ==
  {PeerShareData(v, "r1", "Tea", Str("water, leaves"), ins, 1) :
     v \in 0..MaxShareVersion, ins \in {Undef, Str("steep")}}

\* legacy payloads as any peer may send them; when `sound` the checksum is
\* the one parseDeepLink recomputes
PeerLegacyRecipe(version, title, ingredients, instructions, sound) ==
  LET body == Obj(<< <<"title", Str(title)>>, <<"ingredients", ingredients>>,
                     <<"instructions", instructions>>, <<"rating", Num(4)>>,
                     <<"version", version>> >>)
  IN Set(body, "checksum", IF sound THEN LegacyChecksum(body) ELSE Str("0bad"))

PeerLegacyRecipes ==
  {PeerLegacyRecipe(version, title, ing, ins, sound) :
     version \in {Undef, Num(1), Num(2)}, title \in {"", "Tea"},
     ing \in {Undef, Str("water, leaves")}, ins \in {Str("steep")},
     sound \in BOOLEAN}
    \cup {PeerLegacyRecipe(Num(1), "Tea", Str("water, leaves"), Str(HugeText), TRUE)}

\* the payloads a peer tampers with
TamperedRecipes ==
  {PeerLegacyRecipe(version, "Tea", Str("water, leaves"), Str("steep"), TRUE) :
     version \in {Undef, Num(1), Num(2)}}

LegacyData(recipe) == Obj(<< <<"recipe", recipe>>, <<"timestamp", Num(1)>> >>)

\* the values a tampering peer may write into a field
TamperValues == {Null, Num(2), Str("Soup"), Str(HugeText)}

\* the link a peer makes of a payload; peers are not bound by the size check
LinkOf(payload) == MkLink(LinkPrefix, Base64Encode(Stringify(payload)))

\* links that are no payload of either shape
OddLinks ==
  {MkLink(LinkPrefix, <<"junk", 8>>),
   MkLink(LinkPrefix, <<"junk", MAX_LINK_SIZE>>),
   MkLink(LinkPrefix, <<"junk", MAX_LINK_SIZE - Len(LinkPrefix)>>),
   MkLink(LinkPrefix, <<"junk", MAX_LINK_SIZE - Len(LinkPrefix) + 1>>),
   MkLink(LinkPrefix, Base64Encode(<<"raw", 8>>)),
   MkLink("https://myrecipebox.app/view/", Base64Encode(Stringify(Null))),
   LinkOf(Null), LinkOf(Num(3)), LinkOf(Obj(<<>>)),
   LinkOf(Obj(<< <<"v", Num(1)>> >>)),
   LinkOf(Obj(<< <<"recipe", Obj(<< <<"title", Str("Tea")>> >>)>> >>))}

\* the schema versions a backup's metadata may carry
SchemaVersions == (0 - 1)..MaxSchema
MetadataSchemas == {Undef} \cup {Num(n) : n \in SchemaVersions}

\* backup files as Drive or the file picker may hand them over
BackupMetadata(created, app, schema, count) ==
  Obj(<< <<"created", created>>, <<"app", app>>, <<"schema", schema>>,
         <<"count", count>> >>)
BackupData(metadata, database, timestamp) ==
  Obj(<< <<"database", database>>, <<"preferences", Obj(<<>>)>>,
         <<"version", Num(1)>>, <<"timestamp", timestamp>>,
         <<"compressed", Bool(FALSE)>>, <<"checksum", Str("0bad")>>,
         <<"metadata", metadata>> >>)
Databases ==
  {Undef, Obj(<<>>)} \cup
  {Arr([i \in 1..n |-> Obj(<< <<"title", Str("Tea")>> >>)]) : n \in 0..MaxCount}
Counts == {Undef} \cup {Num(n) : n \in 0..MaxCount}
Snapshots ==
  {BackupData(BackupMetadata(IF lacks = "created" THEN Undef ELSE Num(1),
                             IF lacks = "app" THEN Undef ELSE Str(APP_VERSION),
                             IF lacks = "schema" THEN Undef ELSE Num(1),
                             count),
              database,
              IF lacks = "timestamp" THEN Undef ELSE Num(1)) :
     lacks \in {"", "created", "app", "schema", "timestamp"},
     count \in Counts, database \in Databases}
  \cup {BackupData(Undef, database, Num(1)) : database \in Databases}

\* the members of BackupData, each with the typeof its interface declares
\* (an array for database)
TopLevelFields ==
  << <<"database", "object">>, <<"preferences", "object">>, <<"version", "number">>,
     <<"timestamp", "number">>, <<"compressed", "boolean">>, <<"checksum", "string">>,
     <<"metadata", "object">> >>

\* a well-formed snapshot of one recipe, and the same with one top-level
\* field left out or of another type
PartialSnapshots ==
  LET whole == BackupData(BackupMetadata(Num(1), Str(APP_VERSION), Num(1), Num(1)),
                          Arr(<<Obj(<< <<"title", Str("Tea")>> >>)>>), Num(1))
      Other(type) == IF type = "number" THEN Str("1") ELSE Num(1)
  IN {whole}
     \cup {Delete(whole, TopLevelFields[i][1]) : i \in 1..Len(TopLevelFields)}
     \cup {Set(whole, TopLevelFields[i][1], Other(TopLevelFields[i][2]))
             : i \in 1..Len(TopLevelFields)}

(***************************************************************************)
(* User preferences (database.ts) and GoogleDriveBackup                    *)
(* (src/unnamed/part_009).                                                 *)
(***************************************************************************)
\* the preferences object getUserPreference and setUserPreference read
StoredPreferences(w) ==
  IF w.isWebFallback
    THEN (IF Truthy(w.userPreferences.web) THEN w.userPreferences.web ELSE Obj(<<>>))
    ELSE w.userPreferences.sqlite

\* getUserPreference(key) after its initDatabase
GetUserPreference(w, key) == Or(Get(StoredPreferences(w), key), Null)

\* setUserPreference(key, value) after its initDatabase; AsyncStorage keeps
\* the object as JSON text
SetUserPreference(w, key, value) ==
  IF w.isWebFallback
    THEN [w EXCEPT !.userPreferences.web =
            JsonParse(Stringify(Set(StoredPreferences(w), key, value)))]
    ELSE [w EXCEPT !.userPreferences.sqlite = Set(@, key, value)]

\* createBackupMetadata(recipeCount) after its initDatabase
CreateBackupMetadata(w, recipeCount, now) ==
  BackupMetadata(Num(now), Str(APP_VERSION), Num(MigrationInfo(w).currentVersion),
                 Num(recipeCount))

PrefKeys == <<"theme", "notifications", "autoBackup", "backupFrequency">>

\* createBackup, lines 197-204: the preferences that have a value
CollectedPreferences(w) ==
  LET F[n \in 0..Len(PrefKeys)] ==
        IF n = 0 THEN Obj(<<>>)
        ELSE IF Truthy(GetUserPreference(w, PrefKeys[n]))
          THEN Set(F[n - 1], PrefKeys[n], GetUserPreference(w, PrefKeys[n]))
          ELSE F[n - 1]
  IN F[Len(PrefKeys)]

\* createBackup, lines 212-220: the snapshot before its checksum is set
NewBackupData(recipes, preferences, metadata, now) ==
  Obj(<< <<"database", Arr(recipes)>>, <<"preferences", preferences>>,
         <<"version", Num(1)>>, <<"timestamp", Num(now)>>,
         <<"compressed", Bool(TRUE)>>, <<"checksum", Str("")>>,
         <<"metadata", metadata>> >>)

\* createBackup, lines 223-227: the digest of the snapshot as it stands,
\* its empty checksum member included
CreatedChecksum(backupData) == SHA256(Stringify(backupData))

\* restoreBackup, lines 392-397: the digest of the snapshot without its
\* checksum member
RestoredChecksum(backupData) ==
  SHA256(Stringify(Delete(Spread(backupData, <<>>), "checksum")))

\* a backup file: its text, and for the record where it came from and
\* whether it was changed since
BackupFile(content, origin, name) ==
  [content |-> content, origin |-> origin, name |-> name, altered |-> FALSE]

\* new Date(ms).toISOString().split('T')[0], for the first days of the epoch
DateOf(ms) == "1970-01-0" \o ToString(1 + ms \div 86400000)

\* createBackup, line 231: the name of the file it writes at time now
BackupFileName(now) ==
  "backup_" \o DateOf(now) \o "_" \o ToString(now) \o ".json"

\* createBackupFilename(metadata)
CreateBackupFilename(metadata) ==
  "backup_v" \o ToString(Get(metadata, "schema")[2]) \o "_"
    \o DateOf(Get(metadata, "created")[2]) \o "_"
    \o ToString(Get(metadata, "created")[2]) \o ".json"

\* the numbers and dates that file names of the model carry
NameNumbers == 0..(MaxTime + MaxSchema)
NameDates == {DateOf(t) : t \in NameNumbers}

\* parseBackupFilename(filename): the pattern with the version segment,
\* then the one without; a member the result leaves out reads Undef
ParseBackupFilename(filename) ==
  LET Versioned(v, d, t) ==
        "backup_v" \o ToString(v) \o "_" \o d \o "_" \o ToString(t) \o ".json"
      Legacy(d, t) == "backup_" \o d \o "_" \o ToString(t) \o ".json"
      match == {m \in NameNumbers \X NameDates \X NameNumbers :
                  filename = Versioned(m[1], m[2], m[3])}
      legacyMatch == {m \in NameDates \X NameNumbers : filename = Legacy(m[1], m[2])}
      Found(m) == [version |-> Num(m[1]), date |-> Str(m[2]), timestamp |-> Num(m[3])]
      FoundLegacy(m) == [version |-> Num(1), date |-> Str(m[1]), timestamp |-> Num(m[2])]
  IN IF match # {} THEN Found(CHOOSE m \in match : TRUE)
     ELSE IF legacyMatch # {} THEN FoundLegacy(CHOOSE m \in legacyMatch : TRUE)
     ELSE [version |-> Undef, date |-> Undef, timestamp |-> Undef]

\* listBackups(): the first page of MAX_BACKUPS files, those that parse
ListBackups(files) ==
  LET page == SubSeq(files, 1, IF Len(files) < MAX_BACKUPS THEN Len(files) ELSE MAX_BACKUPS)
  IN SelectSeq(page, LAMBDA f : IsObj(JsonParse(f.content)))

\* cleanupOldBackups(): deletes the listed backups after the first MAX_BACKUPS
CleanupOldBackups(files, listed) ==
  LET backups == IF listed THEN ListBackups(files) ELSE <<>>
      oldBackups == SubSeq(backups, MAX_BACKUPS + 1, Len(backups))
  IN SelectSeq(files, LAMBDA f : \A i \in 1..Len(oldBackups) : oldBackups[i] # f)

\* the ways the token check of createBackup can end
AuthOutcomes == {"valid", "refreshed", "denied"}

\* createBackup(): env tells how authentication ends (auth), whether
\* documentDirectory is set (directory), whether the upload succeeds
\* (uploaded) and whether the listing of cleanupOldBackups succeeds (listed)
CreateBackup(w0, local, files, now, env, open, fault) ==
  LET Failed(w, loc) == [ok |-> FALSE, w |-> w, local |-> loc, files |-> files]
      Uploaded(w, backupData) ==
        [ok |-> TRUE,
         w |-> SetUserPreference(w, "lastBackup", Str(ToString(now))),
         local |-> local,
         files |-> CleanupOldBackups(
                     <<BackupFile(Stringify(backupData), "created", BackupFileName(now))>>
                       \o files,
                     env.listed)]
      Written(w, backupData) ==
        IF ~env.directory THEN Failed(w, local)
        ELSE IF ~env.uploaded
          THEN Failed(w, [local EXCEPT ![now] = Stringify(backupData)])
        ELSE Uploaded(w, backupData)
      Gathered(w, backupData) ==
        Written(w, Set(backupData, "checksum", CreatedChecksum(backupData)))
      Read(w, recipes) ==
        Gathered(w, NewBackupData(recipes, CollectedPreferences(w),
                                  CreateBackupMetadata(w, Len(recipes), now), now))
      Authed(w) == Read(w, GetAllRecipes(w))
      Opened(w) ==
        Authed(IF env.auth = "refreshed"
                 THEN SetUserPreference(w, "google_access_token", Str("token"))
                 ELSE w)
  IN IF env.auth = "denied" THEN Failed(w0, local)
     ELSE Opened(InitDatabase(w0, open, fault).w)

\* restoreBackup(backupId, mode), lines 448-450: every entry of the
\* snapshot's preferences is written
RECURSIVE RestorePreferences(_, _, _)
RestorePreferences(w, entries, n) ==
  IF n = 0 THEN w
  ELSE SetUserPreference(RestorePreferences(w, entries, n - 1), entries[n][1], entries[n][2])

\* restoreBackup(backupId, mode): env tells whether the download succeeds
\* and what the user answers to the compatibility alert; stage is the step
\* at which the restore ended
RestoreBackup(w0, content, env, open, fault) ==
  LET Ended(w, stage, database) ==
        [ok |-> stage = "done", stage |-> stage, w |-> w, database |-> database]
      Restored(w, backupData) ==
        IF ~IsObj(Get(backupData, "preferences"))
          THEN Ended(w, "preferences", Get(backupData, "database"))
        ELSE Ended(RestorePreferences(w, Get(backupData, "preferences")[2],
                                      Len(Get(backupData, "preferences")[2])),
                   "done", Get(backupData, "database"))
      Migrated(w, backupData, database) ==
        IF database = TypeError THEN Ended(w, "migrate", Undef)
        ELSE Restored(w, Set(backupData, "database", database))
      Versioned(w, backupData, backupVersion, currentVersion) ==
        IF IsNum(backupVersion) /\ backupVersion[2] < currentVersion
          THEN Migrated(w, backupData,
                        MigrateBackupData(Get(backupData, "database"), backupVersion[2],
                                          currentVersion))
        ELSE Restored(w, backupData)
      Compared(w, backupData, compatibility) ==
        IF ~compatibility.compatible /\ ~env.continue THEN Ended(w, "cancelled", Undef)
        ELSE Versioned(w, backupData,
                       Or(Or(Get(Get(backupData, "metadata"), "schema"),
                             Get(backupData, "version")), Num(1)),
                       MigrationInfo(w).currentVersion)
      Opened(w, backupData) ==
        Compared(w, backupData,
                 CheckBackupCompatibility(Get(Get(backupData, "metadata"), "schema"),
                                          MigrationInfo(w).currentVersion))
      Parsed(backupData) ==
        IF backupData = SyntaxError THEN Ended(w0, "parse", Undef)
        ELSE IF ~ValidateBackupIntegrity(backupData).valid
          THEN Ended(w0, "validation", Undef)
        ELSE IF RestoredChecksum(backupData) # Get(backupData, "checksum")
          THEN Ended(w0, "checksum", Undef)
        ELSE Opened(InitDatabase(w0, open, fault).w, backupData)
  IN IF ~env.downloaded THEN Ended(w0, "download", Undef)
     ELSE Parsed(JsonParse(content))

(***************************************************************************)
(* Actions.  An operation runs to completion and leaves its arguments and  *)
(* outcome in `call`; Return hands the outcome to the caller.              *)
(***************************************************************************)
CommitStore(w) ==
  /\ db' = w.db
  /\ isWebFallback' = w.isWebFallback
  /\ tables' = w.tables
  /\ schema_info' = w.schema_info
  /\ sqlRecipes' = w.sqlRecipes
  /\ asyncRecipes' = w.asyncRecipes
  /\ upDone' = w.upDone
  /\ userPreferences' = w.userPreferences
  /\ UNCHANGED <<callers, platform, btoaDefined>>

Commit(w) == CommitStore(w) /\ UNCHANGED <<localFiles, driveFiles>>

Init ==
  /\ platform \in {"web", "native"}
  /\ btoaDefined \in (IF platform = "web" THEN {TRUE} ELSE BOOLEAN)
  /\ db = "null"
  /\ isWebFallback = FALSE
  /\ tables = {}
  /\ schema_info = {}
  /\ sqlRecipes = <<>>
  /\ asyncRecipes = Undef
  /\ upDone = [v \in {Migrations[i].version : i \in 1..Len(Migrations)} |-> 0]
  /\ userPreferences = [web |-> Undef, sqlite |-> Obj(<<>>)]
  /\ localFiles = [now \in Times |-> Undef]
  /\ driveFiles = <<>>
  /\ call = Idle
  /\ callers = [p \in Callers |-> NotCalled]

\* initDatabase() at application start
InitDatabaseCall ==
  /\ call = Idle
  /\ db = "null"
  /\ \E c \in InitChoices :
       LET Done(r) ==
             /\ Commit(r.w)
             /\ call' = [op |-> "initDatabase", ran |-> r.ran, mig |-> r.mig,
                         fault |-> c.fault,
                         tablesBefore |-> tables, recordsBefore |-> schema_info,
                         upDoneBefore |-> upDone]
       IN Done(InitDatabase(World, c.open, c.fault))

\* the process ends; the SQLite file and AsyncStorage stay
Restart ==
  /\ call = Idle
  /\ db # "null"
  /\ db' = "null"
  /\ isWebFallback' = FALSE
  /\ UNCHANGED <<callers, platform, btoaDefined, tables, schema_info, sqlRecipes,
                 asyncRecipes, upDone, userPreferences, localFiles, driveFiles,
                 call>>

StoredCount ==
  Len(sqlRecipes) + (IF IsArr(asyncRecipes) THEN Len(asyncRecipes[2]) ELSE 0)

\* createRecipe(recipe)
CreateRecipeCall ==
  /\ call = Idle
  /\ StoredCount < MaxRecipes
  /\ \E f \in StoreForms, now \in Times, c \in ChoicesAt(db) :
       LET Done(w1) ==
             /\ Commit(CreateRecipe(w1, f, now))
             /\ call' = [op |-> "createRecipe", id |-> FreshId(w1)]
       IN Done(InitDatabase(World, c.open, c.fault).w)

\* generateDeepLink(recipe) and generateLegacyDeepLink(recipe)
GenerateCall ==
  /\ call = Idle
  /\ \E recipe \in SharedRecipes, now \in Times, legacy \in BOOLEAN :
       call' = [op |-> "generate", legacy |-> legacy, recipe |-> recipe, now |-> now,
                out |-> IF legacy THEN GenerateLegacyDeepLink(recipe, now, btoaDefined)
                        ELSE GenerateDeepLink(recipe, now)]
  /\ UNCHANGED <<callers, platform, btoaDefined, db, isWebFallback, tables, schema_info,
                 sqlRecipes, asyncRecipes, upDone, userPreferences, localFiles,
                 driveFiles>>

\* the recipes of the store w, <<>> before any initDatabase
Existing(w) == IF w.db = "null" THEN <<>> ELSE GetAllRecipes(w)

\* a link made by generateDeepLink is opened on this store
RoundTripCall ==
  /\ call = Idle
  /\ \E recipe \in SharedRecipes, now \in Times, c \in ChoicesAt(db) :
       LET Done(gen, r) ==
             /\ Commit(r.w)
             /\ call' = [op |-> "roundTrip", recipe |-> recipe, now |-> now,
                         encoded |-> CreateShareData(recipe, now),
                         link |-> gen.link, out |-> r.out, staged |-> r.staged,
                         current |-> MigrationInfo(r.w).currentVersion,
                         existing |-> Existing(r.w)]
           Made(gen) ==
             /\ gen.ok
             /\ Done(gen, ParseDeepLink(gen.link, btoaDefined, World, c.open, c.fault))
       IN Made(GenerateDeepLink(recipe, now))

\* a recipe of this store is shared with generateDeepLink and the link is
\* opened on the same store
ShareStoredCall ==
  /\ call = Idle
  /\ \E c \in ChoicesAt(db), now \in Times :
       LET Done(recipe, gen, r) ==
             /\ Commit(r.w)
             /\ call' = [op |-> "shareStored", recipe |-> recipe, now |-> now,
                         ok |-> gen.ok,
                         out |-> IF gen.ok THEN r.out ELSE Invalid("", ""),
                         current |-> MigrationInfo(r.w).currentVersion,
                         existing |-> Existing(r.w)]
           Made(w1, recipe, gen) ==
             Done(recipe, gen,
                  IF gen.ok
                    THEN ParseDeepLink(gen.link, btoaDefined, w1, c.open, c.fault)
                  ELSE [w |-> w1])
           Opened(w1) ==
             \E i \in 1..Len(GetAllRecipes(w1)) :
               Made(w1, GetAllRecipes(w1)[i],
                    GenerateDeepLink(GetAllRecipes(w1)[i], now))
       IN Opened(InitDatabase(World, c.open, c.fault).w)

\* a link made by generateLegacyDeepLink is opened on this store
LegacyRoundTripCall ==
  /\ call = Idle
  /\ \E recipe \in SharedRecipes, now \in Times, c \in ChoicesAt(db) :
       LET Done(gen, r) ==
             /\ Commit(r.w)
             /\ call' = [op |-> "legacyRoundTrip", recipe |-> recipe, now |-> now,
                         link |-> gen.link, out |-> r.out, staged |-> r.staged]
           Made(gen) ==
             /\ gen.ok
             /\ Done(gen, ParseDeepLink(gen.link, btoaDefined, World, c.open, c.fault))
       IN Made(GenerateLegacyDeepLink(recipe, now, btoaDefined))

\* parseDeepLink of a versioned payload, or of a link that is no payload
ImportVersionedCall ==
  /\ call = Idle
  /\ \E link \in {LinkOf(p) : p \in PeerPayloads} \cup OddLinks,
        c \in ChoicesAt(db) :
       LET Done(r) ==
             /\ Commit(r.w)
             /\ call' = [op |-> "parseDeepLink", link |-> link, out |-> r.out,
                         staged |-> r.staged,
                         current |-> MigrationInfo(r.w).currentVersion,
                         existing |-> Existing(r.w)]
       IN Done(ParseDeepLink(link, btoaDefined, World, c.open, c.fault))

\* parseDeepLink while a query of the store fails
ImportFailingStoreCall ==
  /\ call = Idle
  /\ \E link \in {LinkOf(PeerShareData(v, "r1", "Tea", Str("water, leaves"),
                                       Str("steep"), 1)) : v \in 1..2}
                  \cup {LinkOf(LegacyData(r)) : r \in TamperedRecipes} \cup OddLinks,
        storeFault \in StoreFaults \ {"none"}, c \in ChoicesAt(db) :
       LET Done(r) ==
             /\ Commit(r.w)
             /\ call' = [op |-> "parseFailing", link |-> link,
                         storeFault |-> storeFault, out |-> r.out,
                         staged |-> r.staged,
                         current |-> MigrationInfo(r.w).currentVersion]
       IN Done(ParseDeepLinkFailing(link, btoaDefined, World, c.open, c.fault,
                                    storeFault))

\* parseDeepLink of a legacy payload
ImportLegacyCall ==
  /\ call = Idle
  /\ \E recipe \in PeerLegacyRecipes, c \in ChoicesAt(db) :
       LET Done(link, r) ==
             /\ Commit(r.w)
             /\ call' = [op |-> "parseLegacy", recipe |-> recipe, link |-> link,
                         out |-> r.out, staged |-> r.staged,
                         current |-> MigrationInfo(r.w).currentVersion,
                         existing |-> Existing(r.w)]
           Linked(link) ==
             Done(link, ParseDeepLink(link, btoaDefined, World, c.open, c.fault))
       IN Linked(LinkOf(LegacyData(recipe)))

\* parseDeepLink of a legacy payload whose checksum is right, then of the
\* same payload with one field of its recipe changed
TamperLegacyCall ==
  /\ call = Idle
  /\ \E recipe \in TamperedRecipes, c \in ChoicesAt(db) :
     \E k \in 1..Len(recipe[2]), value \in TamperValues :
       LET field == recipe[2][k][1]
           Done(changed, changedLink, first, second) ==
             /\ Commit(second.w)
             /\ call' = [op |-> "tamperLegacy", recipe |-> recipe, field |-> field,
                         changed |-> changed, changedLink |-> changedLink,
                         first |-> first.out, out |-> second.out,
                         staged |-> second.staged, existing |-> Existing(second.w),
                         current |-> MigrationInfo(second.w).currentVersion]
           Second(changed, changedLink, first) ==
             Done(changed, changedLink, first,
                  ParseDeepLink(changedLink, btoaDefined, first.w, c.open, c.fault))
           Changed(changed, changedLink) ==
             Second(changed, changedLink,
                    ParseDeepLink(LinkOf(LegacyData(recipe)), btoaDefined, World,
                                  c.open, c.fault))
           Tampered(changed) == Changed(changed, LinkOf(LegacyData(changed)))
       IN /\ field # "checksum"
          /\ value # recipe[2][k][2]
          /\ Tampered(Set(recipe, field, value))

\* handleImport(data)
HandleImportCall ==
  /\ call = Idle
  /\ \E link \in {LinkOf(p) : p \in HandledPayloads} \cup OddLinks,
        c \in ChoicesAt(db) :
       LET Done(r) ==
             /\ Commit(r.w)
             /\ call' = [op |-> "handleImport", data |-> link.token, out |-> r.out,
                         current |-> MigrationInfo(r.w).currentVersion]
       IN Done(HandleImport(link.token, btoaDefined, World, c.open, c.fault))

\* checkBackupCompatibility(metadata)
CheckBackupCompatibilityCall ==
  /\ call = Idle
  /\ \E schema \in MetadataSchemas, c \in ChoicesAt(db) :
       LET Checked(currentVersion, w1) ==
             /\ Commit(w1)
             /\ call' = [op |-> "checkBackupCompatibility", schema |-> schema,
                         current |-> currentVersion,
                         out |-> CheckBackupCompatibility(schema, currentVersion)]
           Done(w1) == Checked(MigrationInfo(w1).currentVersion, w1)
       IN Done(InitDatabase(World, c.open, c.fault).w)

\* validateBackupIntegrity(backupData)
ValidateBackupIntegrityCall ==
  /\ call = Idle
  /\ \E backupData \in Snapshots \cup PartialSnapshots :
       call' = [op |-> "validateBackupIntegrity", backupData |-> backupData,
                out |-> ValidateBackupIntegrity(backupData)]
  /\ UNCHANGED <<callers, platform, btoaDefined, db, isWebFallback, tables, schema_info,
                 sqlRecipes, asyncRecipes, upDone, userPreferences, localFiles,
                 driveFiles>>

\* the settings screen stores a preference
SetUserPreferenceCall ==
  /\ call = Idle
  /\ \E key \in {"theme"}, value \in {"dark"}, c \in ChoicesAt(db) :
       LET Done(w1) ==
             /\ Commit(SetUserPreference(w1, key, Str(value)))
             /\ call' = [op |-> "setUserPreference", key |-> key]
       IN /\ GetUserPreference(World, key) # Str(value)
          /\ Done(InitDatabase(World, c.open, c.fault).w)

\* what createBackup meets outside the store
CreateEnvs ==
  {[auth |-> a, directory |-> d, uploaded |-> u, listed |-> l] :
     a \in AuthOutcomes, d \in BOOLEAN, u \in BOOLEAN, l \in BOOLEAN}

\* createBackup() in some environment, and what it leaves behind
CreateBackupRun ==
  \E now \in Times, env \in CreateEnvs, c \in ChoicesAt(db) :
     LET Done(r) ==
           /\ CommitStore(r.w)
           /\ localFiles' = r.local
           /\ driveFiles' = r.files
           /\ call' = [op |-> "createBackup", now |-> now, env |-> env,
                       out |-> r.ok]
     IN Done(CreateBackup(World, localFiles, driveFiles, now, env, c.open, c.fault))

\* createBackup()
CreateBackupCall ==
  /\ call = Idle
  /\ Len(driveFiles) < MaxBackups
  /\ CreateBackupRun

\* createBackup(), one of a series of backups
CreateBackupSeriesCall ==
  /\ call = Idle
  /\ Len(driveFiles) < MaxSeries
  /\ CreateBackupRun

\* snapshots of another build, whose checksum is the digest of the snapshot
\* without its checksum member
ForeignSnapshots ==
  {Set(b, "checksum", RestoredChecksum(b)) :
     b \in {NewBackupData(<<>>, preferences,
                          BackupMetadata(Num(1), Str(APP_VERSION), Num(schema), Num(0)),
                          1) :
              preferences \in {Undef, Obj(<< <<"theme", Str("dark")>> >>)},
              schema \in {1, 2}}
          \cup {NewBackupData(<<Obj(<< <<"title", Str("Tea")>> >>)>>, Obj(<<>>),
                              BackupMetadata(Num(1), Str(APP_VERSION), Num(1), Num(1)),
                              1)}}

\* another device of the user uploads a backup to the folder
ForeignUploadCall ==
  /\ call = Idle
  /\ Len(driveFiles) < MaxBackups
  /\ \E b \in ForeignSnapshots :
       /\ driveFiles' = <<BackupFile(Stringify(b), "foreign", BackupFileName(1))>> \o driveFiles
       /\ call' = [op |-> "foreignUpload"]
  /\ UNCHANGED <<callers, platform, btoaDefined, db, isWebFallback, tables, schema_info,
                 sqlRecipes, asyncRecipes, upDone, userPreferences, localFiles>>

\* the values written into a member of a snapshot that is altered
AlterValues == {Num(0), Bool(FALSE)}

\* a backup file is altered where it is kept
AlterBackupCall ==
  /\ call = Idle
  /\ \E i \in 1..Len(driveFiles), field \in {"timestamp", "compressed"},
        value \in AlterValues :
       LET backupData == JsonParse(driveFiles[i].content)
       IN /\ ~driveFiles[i].altered
          /\ Get(backupData, field) # value
          /\ driveFiles' =
               [driveFiles EXCEPT ![i] =
                  [@ EXCEPT !.content = Stringify(Set(backupData, field, value)),
                            !.altered = TRUE]]
          /\ call' = [op |-> "alterBackup", field |-> field]
  /\ UNCHANGED <<callers, platform, btoaDefined, db, isWebFallback, tables, schema_info,
                 sqlRecipes, asyncRecipes, upDone, userPreferences, localFiles>>

\* what restoreBackup meets outside the store
RestoreEnvs == {[downloaded |-> d, continue |-> k] : d \in BOOLEAN, k \in BOOLEAN}

\* restoreBackup(backupId, mode)
RestoreBackupCall ==
  /\ call = Idle
  /\ \E i \in 1..Len(driveFiles), mode \in {"replace", "merge"}, env \in RestoreEnvs,
        c \in ChoicesAt(db) :
       LET Done(r) ==
             /\ Commit(r.w)
             /\ call' = [op |-> "restoreBackup", file |-> driveFiles[i], mode |-> mode,
                         env |-> env, out |-> r.ok, stage |-> r.stage,
                         database |-> r.database,
                         current |-> MigrationInfo(r.w).currentVersion,
                         preferencesBefore |-> userPreferences]
       IN Done(RestoreBackup(World, driveFiles[i].content, env, c.open, c.fault))

\* the caller takes the outcome
Return ==
  /\ call # Idle
  /\ call' = Idle
  /\ UNCHANGED <<callers, platform, btoaDefined, db, isWebFallback, tables, schema_info,
                 sqlRecipes, asyncRecipes, upDone, userPreferences, localFiles,
                 driveFiles>>

\* the operations that read or write the store
\* validateDatabaseSchema()
ValidateDatabaseSchemaCall ==
  /\ call = Idle
  /\ \E bindStrict \in BOOLEAN, c \in ChoicesAt(db) :
       LET Done(w1) ==
             /\ Commit(w1)
             /\ call' = [op |-> "validateDatabaseSchema", bindStrict |-> bindStrict,
                         out |-> ValidateDatabaseSchema(w1, bindStrict)]
       IN Done(InitDatabase(World, c.open, c.fault).w)

\* rollbackToVersion(targetVersion) of a MigrationSystem on the open database
RollbackToVersionCall ==
  /\ call = Idle
  /\ db = "sqlite"
  /\ \E targetVersion \in 0..MaxSchema :
       LET Done(r) ==
             /\ Commit(r.w)
             /\ call' = [op |-> "rollbackToVersion", targetVersion |-> targetVersion,
                         before |-> r.before, done |-> r.done, thrown |-> r.thrown,
                         fileBefore |-> FileOf(World)]
       IN Done(RollbackToVersion(World, targetVersion))

Next ==
  \/ InitDatabaseCall
  \/ Restart
  \/ CreateRecipeCall
  \/ RoundTripCall
  \/ LegacyRoundTripCall
  \/ ImportVersionedCall
  \/ ImportFailingStoreCall
  \/ ImportLegacyCall
  \/ TamperLegacyCall
  \/ HandleImportCall
  \/ CheckBackupCompatibilityCall
  \/ Return

Spec == Init /\ [][Next]_vars

\* the operations that are functions of their arguments and of the runtime
\* the versions a later build of the application records
FutureVersions == (GetLatestVersion + 1)..MaxSchema

\* the device holds the database file of a later build, which this build
\* has not opened yet
FutureInit ==
  /\ platform = "native"
  /\ btoaDefined \in BOOLEAN
  /\ db = "null"
  /\ isWebFallback = FALSE
  /\ tables = {UpStatements(1)[i] : i \in 1..Len(UpStatements(1))}
  /\ \E v \in FutureVersions : schema_info = 1..v
  /\ sqlRecipes = <<>>
  /\ asyncRecipes = Undef
  /\ upDone = [v \in {Migrations[i].version : i \in 1..Len(Migrations)} |-> 0]
  /\ userPreferences = [web |-> Undef, sqlite |-> Obj(<<>>)]
  /\ localFiles = [now \in Times |-> Undef]
  /\ driveFiles = <<>>
  /\ call = Idle
  /\ callers = [p \in Callers |-> NotCalled]

LadderNext ==
  \/ InitDatabaseCall
  \/ Restart
  \/ CreateRecipeCall
  \/ ValidateDatabaseSchemaCall
  \/ RollbackToVersionCall
  \/ ImportVersionedCall
  \/ HandleImportCall
  \/ ShareStoredCall
  \/ Return

\* the store of a fresh installation or of a later build, under the
\* operations of the migration ladder
LadderInit == Init \/ FutureInit

LadderSpec == LadderInit /\ [][LadderNext]_vars

\* ladders as getMigrations() may come to list them: steps 1..n in
\* ascending order, each with or without a reverse action.  Step 1 is the
\* one of this build; the reverse action of a later step drops nothing.
Ladders ==
  UNION {[1..n -> {[version |-> v, down |-> d] : v \in 1..n, d \in BOOLEAN}]
           : n \in 1..MaxSchema}

\* rollbackToVersion(targetVersion) on a store at version current of a ladder
RollbackLadderCall ==
  /\ call = Idle
  /\ \E migrations \in {l \in Ladders : \A k \in 1..Len(l) : l[k].version = k},
        targetVersion \in 0..MaxSchema :
     \E current \in 0..Len(migrations) :
       LET Done(r) ==
             call' = [op |-> "rollbackLadder", migrations |-> migrations,
                      targetVersion |-> targetVersion, before |-> r.before,
                      done |-> r.done, thrown |-> r.thrown,
                      after |-> GetCurrentVersion(r.w)]
       IN Done(RollbackToVersionOn(
                 migrations,
                 [World EXCEPT !.db = "sqlite",
                               !.tables = {UpStatements(1)[k] : k \in 1..Len(UpStatements(1))},
                               !.schema_info = 1..current],
                 targetVersion))
  /\ UNCHANGED <<callers, platform, btoaDefined, db, isWebFallback, tables, schema_info,
                 sqlRecipes, asyncRecipes, upDone, userPreferences, localFiles,
                 driveFiles>>

\* records of backups and share payloads: with and without the later
\* fields, with falsy values in them, and a record that is null
MigratedRecords ==
  {Null, Num(3),
   Obj(<< <<"title", Str("Tea")>> >>),
   Obj(<< <<"title", Str("Tea")>>, <<"source_url", Str("https://example.com/tea")>> >>),
   Obj(<< <<"cooking_method", Str("")>>, <<"title", Str("Tea")>>,
          <<"nutrition", Num(0)>> >>),
   Obj(<< <<"title", Str("Tea")>>, <<"source_type", Str("url")>>,
          <<"cooking_method", Str("Easy")>>, <<"nutrition", Str("dark")>> >>)}

\* snapshots whose database is a list of such records, or no list
MigratedSnapshots ==
  {Obj(<< <<"database", database>>, <<"version", Num(1)>> >>) :
     database \in {Undef, Obj(<<>>)}
                    \cup {Arr(<<r>>) : r \in MigratedRecords}
                    \cup {Arr(<<Obj(<< <<"title", Str("Tea")>> >>), r>>)
                            : r \in MigratedRecords}}

\* the records of a snapshot and of a payload are migrated from version a
\* to version b at once, by way of version c, and once more
MigrateCall ==
  /\ call = Idle
  /\ \E a \in 1..MaxSchema, c \in 1..MaxSchema, b \in 1..MaxSchema,
        data \in MigratedSnapshots, recipe \in MigratedRecords :
       LET Done(direct, shared) ==
             call' = [op |-> "migrate", a |-> a, c |-> c, b |-> b,
                      data |-> data, recipe |-> recipe,
                      direct |-> direct,
                      via |-> MigrateBackupData(MigrateBackupData(data, a, c), c, b),
                      again |-> MigrateBackupData(direct, a, b),
                      shared |-> shared,
                      sharedVia |-> TransformRange(TransformRange(recipe, a + 1, c),
                                                   c + 1, b),
                      sharedAgain |-> TransformRange(shared, a + 1, b)]
       IN /\ a <= c
          /\ c <= b
          /\ Done(MigrateBackupData(data, a, b), TransformRange(recipe, a + 1, b))
  /\ UNCHANGED <<callers, platform, btoaDefined, db, isWebFallback, tables, schema_info,
                 sqlRecipes, asyncRecipes, upDone, userPreferences, localFiles,
                 driveFiles>>

(***************************************************************************)
(* initDatabase() step by step.  JavaScript runs one invocation at a time  *)
(* until it reaches an await; there any other invocation may run.  Each    *)
(* action below is the code between two awaits.                            *)
(***************************************************************************)
\* the positions inside MigrationSystem.runMigrations and validateSchema
LadderPcs == {"ensure", "version", "step", "validate"}

\* initDatabase() up to its first await: `if (db) return db;`
\* (database.ts:17-19), else the branch on Platform.OS
InitDatabaseEnter(p) ==
  /\ callers[p].pc = "idle"
  /\ IF db # "null"
       THEN /\ callers' = [callers EXCEPT ![p] = [@ EXCEPT !.pc = "returned",
                                                          !.got = db,
                                                          !.via = "shortcut"]]
            /\ UNCHANGED isWebFallback
     ELSE IF platform = "web"
       THEN /\ isWebFallback' = TRUE
            /\ callers' = [callers EXCEPT ![p].pc = "web"]
     ELSE /\ callers' = [callers EXCEPT ![p].pc = "opening"]
          /\ UNCHANGED isWebFallback
  /\ UNCHANGED <<platform, btoaDefined, db, tables, schema_info, sqlRecipes,
                 asyncRecipes, upDone, userPreferences, localFiles, driveFiles, call>>

\* `db = await SQLite.openDatabaseAsync(...)` resumes and runMigrations(db)
\* starts (database.ts:29-31); a rejected open goes to the catch block, which
\* awaits initWebDatabase()
InitDatabaseOpened(p) ==
  /\ callers[p].pc = "opening"
  /\ \E open \in BOOLEAN :
       IF open
         THEN /\ db' = "sqlite"
              /\ callers' = [callers EXCEPT ![p].pc = "ensure"]
              /\ UNCHANGED isWebFallback
       ELSE /\ isWebFallback' = TRUE
            /\ callers' = [callers EXCEPT ![p].pc = "web"]
            /\ UNCHANGED db
  /\ UNCHANGED <<platform, btoaDefined, tables, schema_info, sqlRecipes,
                 asyncRecipes, upDone, userPreferences, localFiles, driveFiles, call>>

\* CREATE TABLE IF NOT EXISTS schema_info
RunMigrationsEnsure(p) ==
  /\ callers[p].pc = "ensure"
  /\ tables' = tables \cup {"schema_info"}
  /\ callers' = [callers EXCEPT ![p].pc = "version"]
  /\ UNCHANGED <<platform, btoaDefined, db, isWebFallback, schema_info, sqlRecipes,
                 asyncRecipes, upDone, userPreferences, localFiles, driveFiles, call>>

\* getCurrentVersion() and the comparison with getLatestVersion()
RunMigrationsVersion(p) ==
  /\ callers[p].pc = "version"
  /\ LET Read(currentVersion) ==
           callers' = [callers EXCEPT ![p] =
                         [@ EXCEPT !.currentVersion = currentVersion,
                                   !.pc = IF currentVersion >= GetLatestVersion
                                            THEN "validate" ELSE "step"]]
     IN Read(GetCurrentVersion(World))
  /\ UNCHANGED <<platform, btoaDefined, db, isWebFallback, tables, schema_info,
                 sqlRecipes, asyncRecipes, upDone, userPreferences, localFiles,
                 driveFiles, call>>

\* the loop over the pending migrations, each in its transaction; a failed
\* one is rethrown up to initDatabase's catch block
RunMigrationsStep(p) ==
  /\ callers[p].pc = "step"
  /\ \E fault \in Faults :
       LET Ran(st) ==
             /\ tables' = st.tables
             /\ schema_info' = st.schema_info
             /\ upDone' = st.upDone
             /\ isWebFallback' = (isWebFallback \/ st.thrown # "")
             /\ callers' = [callers EXCEPT ![p].pc =
                              IF st.thrown # "" THEN "web" ELSE "validate"]
       IN Ran(MigrationLoop(1, [tables |-> tables, schema_info |-> schema_info,
                                upDone |-> upDone, results |-> <<>>, log |-> <<>>,
                                thrown |-> ""],
                            callers[p].currentVersion, fault))
  /\ UNCHANGED <<platform, btoaDefined, db, sqlRecipes, asyncRecipes,
                 userPreferences, localFiles, driveFiles, call>>

\* validateSchema() only reads; then `return db` (database.ts:34)
InitDatabaseReturn(p) ==
  /\ callers[p].pc = "validate"
  /\ callers' = [callers EXCEPT ![p] = [@ EXCEPT !.pc = "returned", !.got = db,
                                                    !.via = "ladder"]]
  /\ UNCHANGED <<platform, btoaDefined, db, isWebFallback, tables, schema_info,
                 sqlRecipes, asyncRecipes, upDone, userPreferences, localFiles,
                 driveFiles, call>>

\* initWebDatabase() has finished: `db = { isWebFallback: true }; return db`
InitDatabaseFallback(p) ==
  /\ callers[p].pc = "web"
  /\ LET Done(w) ==
           /\ asyncRecipes' = w.asyncRecipes
           /\ userPreferences' = w.userPreferences
     IN Done(InitWebDatabase(World))
  /\ db' = "web"
  /\ callers' = [callers EXCEPT ![p] = [@ EXCEPT !.pc = "returned", !.got = "web",
                                                    !.via = "fallback"]]
  /\ UNCHANGED <<platform, btoaDefined, isWebFallback, tables, schema_info,
                 sqlRecipes, upDone, localFiles, driveFiles, call>>

ConcurrentNext ==
  \E p \in Callers :
    \/ InitDatabaseEnter(p)
    \/ InitDatabaseOpened(p)
    \/ RunMigrationsEnsure(p)
    \/ RunMigrationsVersion(p)
    \/ RunMigrationsStep(p)
    \/ InitDatabaseReturn(p)
    \/ InitDatabaseFallback(p)

\* the components of a starting application call initDatabase() on a store
\* no invocation has opened yet
ConcurrentSpec == Init /\ [][ConcurrentNext]_vars

RestoreNext ==
  \/ InitDatabaseCall
  \/ Restart
  \/ CreateRecipeCall
  \/ ForeignUploadCall
  \/ RestoreBackupCall
  \/ Return

\* backups of other installations are restored on the store of a fresh
\* installation or of a later build
RestoreSpec == LadderInit /\ [][RestoreNext]_vars

PureNext ==
  \/ GenerateCall
  \/ ValidateBackupIntegrityCall
  \/ RollbackLadderCall
  \/ MigrateCall
  \/ Return

PureSpec == Init /\ [][PureNext]_vars

\* the operations of the backup screen, on a store that holds recipes
BackupNext ==
  \/ CreateRecipeCall
  \/ SetUserPreferenceCall
  \/ CreateBackupCall
  \/ ForeignUploadCall
  \/ AlterBackupCall
  \/ RestoreBackupCall
  \/ Return

BackupSpec == Init /\ [][BackupNext]_vars

RetentionNext ==
  \/ CreateRecipeCall
  \/ CreateBackupSeriesCall
  \/ Return

\* one backup after another, with recipes added in between
RetentionSpec == Init /\ [][RetentionNext]_vars

(***************************************************************************)
(* Properties.                                                             *)
(***************************************************************************)
ParseOps == {"parseDeepLink", "parseLegacy", "roundTrip", "tamperLegacy"}

\* some recipe of the list has the title, ingredients and instructions of
\* `recipe`
HoldsSame(recipes, recipe) ==
  \E i \in 1..Len(recipes) :
    \A k \in {"title", "ingredients", "instructions"} :
      Get(recipes[i], k) = Get(recipe, k)

VersionedFields ==
  {"id", "title", "ingredients", "instructions", "cooking_method", "source_type",
   "nutrition"}

\* C1 (as stated): a link made by generateDeepLink of a recipe with id and
\* title, within the budget, parsed on a store holding no recipe of the same
\* title, ingredients and instructions, comes back isValid with the seven
\* encoded fields unchanged.
C1_RoundTrip ==
  (call.op = "roundTrip" /\ ~HoldsSame(call.existing, Get(call.encoded, "recipe")))
    => /\ call.out.isValid
       /\ \A k \in VersionedFields :
            Get(call.out.recipe, k) = Get(Get(call.encoded, "recipe"), k)

\* C1: where the statement fails: the link of Tea, made by this build (v 3),
\* is refused as version_mismatch by a store at schema version 1
C1_Refused ==
  /\ call.op = "roundTrip"
  /\ Get(call.recipe, "title") = Str("Tea")
  /\ call.existing = <<>>
  /\ Get(call.encoded, "v") = Num(3)
  /\ call.current = 1
  /\ call.out.error = "version_mismatch"

\* the payload a generator serializes
GeneratedPayload ==
  IF call.legacy
    THEN Obj(<< <<"recipe", CreateShareableRecipe(call.recipe)>>,
                <<"timestamp", Num(call.now)>> >>)
    ELSE CreateShareData(call.recipe, call.now)

\* C2 (as stated): generateDeepLink and generateLegacyDeepLink either throw
\* 'Recipe data too large for sharing' or return the complete link of the
\* serialized payload, which is no longer than 2048.
C2_SizeEnforced ==
  call.op = "generate" =>
    \/ ~call.out.ok /\ call.out.error = "Recipe data too large for sharing"
    \/ /\ call.out.ok
       /\ LinkLen(call.out.link) <= 2048
       /\ call.out.link.head = "myrecipebox://import/"
       /\ Base64Decode(call.out.link.token) = Stringify(GeneratedPayload)

\* C2: where the statement fails: without a global btoa
\* generateLegacyDeepLink ends in a ReferenceError, for a payload that fits
C2_NoBtoa ==
  /\ call.op = "generate"
  /\ call.legacy
  /\ ~btoaDefined
  /\ 21 + TokenLen(Base64Encode(Stringify(GeneratedPayload))) <= 2048
  /\ ~call.out.ok
  /\ call.out.error = "ReferenceError: btoa is not defined"

\* C3: a well-formed versioned payload whose v is above the store's schema
\* version is refused by parseDeepLink as version_mismatch (update required)
\* whatever the store holds, and by handleImport as UPDATE_REQUIRED; no
\* parseDeepLink result is valid with shareVersion above currentVersion.
C3_NewerBlocked ==
  /\ (/\ call.op \in {"parseDeepLink", "roundTrip"}
      /\ call.staged.stage = "store"
      /\ call.staged.shareVersion[2] > call.current)
       => /\ ~call.out.isValid
          /\ call.out.error = "version_mismatch"
          /\ call.out.errorMessage = "Update app to import this recipe"
  /\ (/\ call.op = "handleImport"
      /\ call.data[1] = "b64"
      /\ IsObj(JsonParse(call.data[2]))
      /\ IsNum(Get(JsonParse(call.data[2]), "v"))
      /\ Get(JsonParse(call.data[2]), "v")[2] > call.current)
       => ~call.out.ok /\ call.out.error = "UPDATE_REQUIRED"
  /\ (call.op \in ParseOps /\ call.out.isValid)
       => call.out.shareVersion[2] <= call.out.currentVersion[2]

\* C3: a payload of version 2 is refused on a store at version 1 that holds
\* the very recipe
C3_Witness ==
  /\ call.op = "parseDeepLink"
  /\ call.staged.stage = "store"
  /\ call.staged.shareVersion = Num(2)
  /\ call.current = 1
  /\ HoldsSame(call.existing, call.staged.recipe)
  /\ call.out.error = "version_mismatch"

\* C4 (as stated): a legacy payload that parseDeepLink accepts, with the
\* value of one field of its recipe other than checksum changed (title still
\* non-empty, checksum untouched), is refused as corrupted, by the stages
\* that run before the version and duplicate checks.
C4_AnyChange ==
  (/\ call.op = "tamperLegacy"
   /\ call.first.isValid
   /\ Truthy(Get(call.changed, "title")))
    => call.out.error = "corrupted" /\ call.staged.stage = "done"

\* C4: the same, for a changed payload whose link still fits the 2048
\* budget; a longer link is refused as size_limit before the checksum is
\* looked at.
C4_ChangeWithinBudget ==
  (/\ call.op = "tamperLegacy"
   /\ call.first.isValid
   /\ Truthy(Get(call.changed, "title")))
    => /\ call.staged.stage = "done"
       /\ IF LinkLen(call.changedLink) <= 2048
            THEN call.out.error = "corrupted"
            ELSE call.out.error = "size_limit"

\* C4: an accepted payload whose version field was raised above the store's
\* schema version is refused as corrupted, not as version_mismatch
C4_Witness ==
  /\ call.op = "tamperLegacy"
  /\ call.first.isValid
  /\ call.field = "version"
  /\ Get(call.changed, "version") = Num(2)
  /\ call.current = 1
  /\ call.out.error = "corrupted"

\* C5: a payload that passes the format, size, checksum and version checks
\* is refused as duplicate exactly when a stored recipe has its title,
\* ingredients and instructions; nothing else of the payload decides.
C5_DuplicateIsContentEquality ==
  (/\ call.op \in ParseOps
   /\ call.staged.stage = "store"
   /\ call.staged.shareVersion[2] <= call.current)
    => /\ call.out.error = "duplicate" <=> HoldsSame(call.existing, call.staged.recipe)
       /\ call.out.isValid <=> ~HoldsSame(call.existing, call.staged.recipe)

\* C5: a payload is refused as duplicate though no stored recipe has its id
C5_Witness ==
  /\ call.op = "parseDeepLink"
  /\ call.staged.stage = "store"
  /\ call.out.error = "duplicate"
  /\ \A i \in 1..Len(call.existing) :
       Get(call.existing[i], "id") # Get(call.staged.recipe, "id")

\* the decision the version policy prescribes for backup version b on a
\* store at version c
Prescribed(b, c, out) ==
  /\ out.message # "Unknown backup version"
  /\ b = c => out.compatible /\ ~out.requiresUpdate /\ ~out.dataLoss
  /\ b > c => ~out.compatible /\ out.requiresUpdate /\ out.dataLoss
  /\ b < c => out.compatible /\ ~out.requiresUpdate /\ ~out.dataLoss

\* C6: for every pair of integers (metadata.schema, current schema version)
\* checkBackupCompatibility gives the decision of the three-way comparison
\* and never 'Unknown backup version'.
C6_PolicyTotal ==
  /\ (call.op = "checkBackupCompatibility" /\ IsNum(call.schema))
       => Prescribed(call.schema[2], call.current, call.out)
  /\ \A b \in SchemaVersions, c \in SchemaVersions :
       Prescribed(b, c, CheckBackupCompatibility(Num(b), c))

\* C6: a backup of schema version 0 was found compatible on a store at 1
C6_Witness ==
  /\ call.op = "checkBackupCompatibility"
  /\ call.schema = Num(0)
  /\ call.current = 1
  /\ call.out.compatible
  /\ call.out.message = "Backup from older version. Will be migrated during restore."

LadderVersions == {Migrations[i].version : i \in 1..Len(Migrations)}

\* the versions whose forward action a runMigrations call ran, in order
UpsOf(log) ==
  LET ups == SelectSeq(log, LAMBDA e : e[1] = "up")
  IN [i \in 1..Len(ups) |-> ups[i][2]]

C8_MigrationFailure ==
  (/\ call.op = "initDatabase"
   /\ call.ran
   /\ call.fault # NoFault
   /\ call.fault.version > call.mig.before)
    => LET v == call.fault.version
           log == call.mig.log
       IN /\ call.mig.thrown
               = "Migration " \o ToString(v) \o " failed: statement "
                   \o ToString(call.fault.at)
          /\ \A i \in 1..Len(log) : log[i][2] <= v
          /\ log[Len(log)] = <<"rollback", v>>
          /\ \A i \in 1..Len(log) : log[i] # <<"record", v>>
          /\ schema_info = call.recordsBefore
          /\ v \notin schema_info
          /\ tables = call.tablesBefore \cup {"schema_info"}
          /\ GetCurrentVersion(World) = call.mig.before
          /\ call.mig.results[Len(call.mig.results)]
               = [version |-> v, success |-> FALSE,
                  error |-> "statement " \o ToString(call.fault.at)]

\* C8: the third statement of step 1 failed and the file holds no table of
\* the step
C8_Witness ==
  /\ call.op = "initDatabase"
  /\ call.fault = [version |-> 1, at |-> 3]
  /\ call.mig.thrown = "Migration 1 failed: statement 3"
  /\ tables = {"schema_info"}
  /\ schema_info = {}

\* C9: no step's forward action is committed more than once on one store,
\* and a runMigrations call that finds currentVersion() >= latestVersion()
\* runs nothing, records nothing and returns an empty list.
C9_LadderIdempotent ==
  /\ \A v \in DOMAIN upDone : upDone[v] <= 1
  /\ (call.op = "initDatabase" /\ call.ran /\ call.mig.before >= GetLatestVersion)
       => /\ call.mig.results = <<>>
          /\ call.mig.log = <<>>
          /\ call.mig.thrown = ""
          /\ schema_info = call.recordsBefore
          /\ tables = call.tablesBefore
          /\ upDone = call.upDoneBefore

\* C9: the application started again on a migrated file
C9_Witness ==
  /\ call.op = "initDatabase"
  /\ call.ran
  /\ call.mig.before = 1
  /\ call.mig.results = <<>>
  /\ upDone[1] = 1

\* C10: validateBackupIntegrity finds valid only a snapshot whose
\* metadata.count is the length of its database list; a snapshot in which the
\* two differ is invalid, with a 'Recipe count mismatch' error.
C10_CountConsistency ==
  call.op = "validateBackupIntegrity" =>
    LET metadata == Get(call.backupData, "metadata")
        database == Get(call.backupData, "database")
        count == Get(metadata, "count")
    IN /\ call.out.valid => IsArr(database) /\ count = Num(Len(database[2]))
       /\ (IsObj(metadata) /\ IsArr(database) /\ count # Num(Len(database[2])))
            => /\ ~call.out.valid
               /\ \E i \in 1..Len(call.out.errors) :
                    call.out.errors[i]
                      = "Recipe count mismatch: metadata says " \o Show(count)
                          \o ", found " \o ToString(Len(database[2]))

\* C10: a snapshot that says 2 and holds 1 is refused for that alone
C10_Witness ==
  /\ call.op = "validateBackupIntegrity"
  /\ Get(Get(call.backupData, "metadata"), "count") = Num(2)
  /\ Get(call.backupData, "database") = Arr(<<Obj(<< <<"title", Str("Tea")>> >>)>>)
  /\ call.out = [valid |-> FALSE,
                 errors |-> <<"Recipe count mismatch: metadata says 2, found 1">>]

\* restoreBackup went past the comparison of the two checksums
PastChecksum == call.stage \in {"cancelled", "preferences", "done"}

\* C11 (as stated): a snapshot written by createBackup and read back
\* unmodified passes the checksum stage of restoreBackup, and one altered
\* after creation does not.
C11_ChecksumRoundTrip ==
  (/\ call.op = "restoreBackup"
   /\ call.env.downloaded
   /\ call.file.origin = "created")
    => /\ ~call.file.altered => PastChecksum
       /\ call.file.altered => ~PastChecksum

\* C11: where the statement fails: the backup createBackup made of a stored
\* recipe, downloaded as it was written, is refused as corrupted
C11_Corrupted ==
  /\ call.op = "restoreBackup"
  /\ call.env.downloaded
  /\ call.file.origin = "created"
  /\ ~call.file.altered
  /\ Len(Get(JsonParse(call.file.content), "database")[2]) = 1
  /\ ValidateBackupIntegrity(JsonParse(call.file.content)).valid
  /\ call.stage = "checksum"
  /\ ~call.out

\* C12 (as stated): a link made by generateLegacyDeepLink, within the
\* budget, is never reported corrupted by parseDeepLink: the checksum that
\* createShareableRecipe embedded is the one parseDeepLink recomputes.
C12_LegacyDecodable ==
  call.op = "legacyRoundTrip" =>
    LET recipe == Get(JsonParse(Base64Decode(call.link.token)), "recipe")
    IN /\ call.out.error # "corrupted"
       /\ Get(recipe, "checksum") = LegacyChecksum(recipe)

\* C12: where the statement fails: the legacy link of Tea, 2048 characters
\* or fewer, comes back corrupted because the two checksums differ
C12_Corrupted ==
  /\ call.op = "legacyRoundTrip"
  /\ Get(call.recipe, "title") = Str("Tea")
  /\ LinkLen(call.link) <= 2048
  /\ Get(Get(JsonParse(Base64Decode(call.link.token)), "recipe"), "checksum")
       = MD5(Stringify(Set(Delete(CreateShareableRecipe(call.recipe), "checksum"),
                           "checksum", Str(""))))
  /\ call.out.error = "corrupted"
  /\ call.out.errorMessage = "Recipe data is corrupted"

\* a legacy recipe with a title, the checksum parseDeepLink recomputes and a
\* version (1 when absent) not above the store's, on a store that holds no
\* recipe of the same title, ingredients and instructions
OlderLegacy ==
  /\ call.op = "parseLegacy"
  /\ Truthy(Get(call.recipe, "title"))
  /\ Get(call.recipe, "checksum") = LegacyChecksum(call.recipe)
  /\ Or(Get(call.recipe, "version"), Num(1))[2] <= call.current
  /\ ~HoldsSame(call.existing, call.recipe)

\* the payload is accepted whole
AcceptedWhole ==
  /\ call.out.isValid
  /\ call.out.shareVersion = Or(Get(call.recipe, "version"), Num(1))
  /\ call.out.currentVersion = Num(call.current)
  /\ call.out.recipe = JsonParse(Stringify(call.recipe))
  /\ \A i \in 1..Len(call.recipe[2]) :
       call.recipe[2][i][2] # Undef
         => Get(call.out.recipe, call.recipe[2][i][1]) = call.recipe[2][i][2]

AllParseOps == ParseOps \cup {"parseFailing", "legacyRoundTrip"}

ErrorCodes == {"invalid", "size_limit", "corrupted", "version_mismatch", "duplicate"}

\* the link has the prefix and a body that is not base64 or not JSON
Undecodable(link) ==
  /\ StartsWith(link, LinkPrefix)
  /\ link.token[1] = "junk" \/ JsonParse(Base64Decode(link.token)) = SyntaxError

\* every call resolves to a result that is valid or carries an error code,
\* and a failing store query resolves to 'invalid'
NothingThrown ==
  /\ call.op \in AllParseOps
       => /\ call.out.isValid \/ call.out.error \in ErrorCodes
          /\ call.out.isValid <=> call.out.error = ""
  /\ (/\ call.op = "parseFailing"
      /\ call.staged.stage = "store"
      /\ \/ call.storeFault = "getMigrationInfo"
         \/ call.staged.shareVersion[2] <= call.current)
       => ~call.out.isValid /\ call.out.error = "invalid"

\* C14 (as stated): parseDeepLink never throws, also when getMigrationInfo
\* or getAllRecipes fail: an invalid result carries an error code; a link
\* with the prefix whose body is not base64 or not JSON gives 'corrupted'.
C14_AnyUndecodable ==
  /\ NothingThrown
  /\ (call.op \in {"parseDeepLink", "parseFailing"} /\ Undecodable(call.link))
       => call.out.error = "corrupted"

\* C14: the same, where the undecodable link is no longer than 2048; a
\* longer one gives 'size_limit'.
C14_NoExceptionCrosses ==
  /\ NothingThrown
  /\ (call.op \in {"parseDeepLink", "parseFailing"} /\ Undecodable(call.link))
       => IF LinkLen(call.link) <= 2048 THEN call.out.error = "corrupted"
          ELSE call.out.error = "size_limit"

\* C14: getAllRecipes failed under a well-formed payload of version 1, and
\* the call resolved to 'invalid'
C14_Witness ==
  /\ call.op = "parseFailing"
  /\ call.storeFault = "getAllRecipes"
  /\ call.staged.stage = "store"
  /\ call.staged.shareVersion = Num(1)
  /\ call.out = Invalid("invalid", "Cannot read this recipe")

\* the body of the link decodes to JSON of neither the versioned shape (v
\* plus recipe) nor the legacy shape (recipe plus timestamp)
UnknownShape(link) ==
  LET Neither(parsed) ==
        /\ parsed # SyntaxError
        /\ ~(Truthy(Get(parsed, "v")) /\ Truthy(Get(parsed, "recipe")))
        /\ ~(Truthy(Get(parsed, "recipe")) /\ Truthy(Get(parsed, "timestamp")))
  IN /\ StartsWith(link, LinkPrefix)
     /\ LinkLen(link) <= MAX_LINK_SIZE
     /\ link.token[1] # "junk"
     /\ Neither(JsonParse(Base64Decode(link.token)))

\* C15 (as stated): a link with the prefix whose body decodes to JSON of
\* neither the versioned nor the legacy shape gives error 'invalid', never
\* 'corrupted'.
C15_UnknownShapeInvalid ==
  (call.op = "parseDeepLink" /\ UnknownShape(call.link))
    => call.out.error = "invalid"

\* C15: a body that decodes to the JSON object {} was refused as 'corrupted'
C15_UnknownShapeCorrupted ==
  /\ call.op = "parseDeepLink"
  /\ call.link = LinkOf(Obj(<<>>))
  /\ UnknownShape(call.link)
  /\ call.out = Invalid("corrupted", MSG_CORRUPTED)

\* the calls of parseDeepLink that record the link they were given
LinkOps == {"parseDeepLink", "parseFailing", "parseLegacy", "roundTrip", "legacyRoundTrip"}

\* C16 (as stated): 'size_limit' is returned exactly when the part of the
\* link after the prefix is longer than 2048.
C16_TokenCeiling ==
  (call.op \in LinkOps /\ StartsWith(call.link, LinkPrefix))
    => (call.out.error = "size_limit" <=> TokenLen(call.link.token) > 2048)

\* C16: for a link with the prefix, 'size_limit' is returned exactly when
\* the whole link, prefix and token together, is longer than 2048; a link
\* without the prefix is never refused for size.
C16_LinkCeiling ==
  call.op \in LinkOps
    => (call.out.error = "size_limit"
          <=> /\ StartsWith(call.link, LinkPrefix)
              /\ Len(LinkPrefix) + TokenLen(call.link.token) > 2048)

\* C16: a token of 2028 characters, 2049 with the prefix, was refused for
\* size
C16_Witness ==
  /\ call.op = "parseDeepLink"
  /\ StartsWith(call.link, LinkPrefix)
  /\ TokenLen(call.link.token) = 2028
  /\ call.out.error = "size_limit"

\* the errors of the stages that read the link alone
LinkErrors == {"invalid", "size_limit", "corrupted"}

\* one call of parseDeepLink on a store whose queries work: the outcome is
\* that of the earliest failing stage, and the store is opened exactly when
\* the prefix, size, decode, shape, field and checksum stages have passed
StageOrderStep ==
  LET Ordered(c) ==
        /\ ~StartsWith(c.link, LinkPrefix) => c.out.error = "invalid"
        /\ (StartsWith(c.link, LinkPrefix) /\ LinkLen(c.link) > MAX_LINK_SIZE)
             => c.out.error = "size_limit"
        /\ (/\ StartsWith(c.link, LinkPrefix)
            /\ LinkLen(c.link) <= MAX_LINK_SIZE
            /\ Undecodable(c.link) \/ UnknownShape(c.link))
             => c.out.error = "corrupted"
        /\ (/\ c.op = "parseLegacy"
            /\ LinkLen(c.link) <= MAX_LINK_SIZE
            /\ ~Truthy(Get(c.recipe, "title")) \/ ~Truthy(Get(c.recipe, "checksum")))
             => c.out.error = "invalid"
        /\ (/\ c.op \in {"parseDeepLink", "parseLegacy"}
            /\ c.staged.stage = "store"
            /\ c.staged.shareVersion[2] > c.current)
             => c.out.error = "version_mismatch"
        /\ c.out.error \in LinkErrors <=> c.staged.stage = "done"
        /\ db = "null" => (db' = "null" <=> c.out.error \in LinkErrors)
        /\ c.out.error \in LinkErrors
             => UNCHANGED <<db, isWebFallback, tables, schema_info, sqlRecipes,
                            asyncRecipes, userPreferences>>
  IN call'.op \in LinkOps \ {"parseFailing"} => Ordered(call')

\* C17: parseDeepLink checks prefix, size, decode, shape and required
\* fields, legacy checksum, version and duplicate in this order and returns
\* the outcome of the first that fails; the store is not read before the
\* format, size and checksum checks have passed.
C17_StageOrder == [][StageOrderStep]_vars

\* C17: an oversized link with an undecodable body was refused for size on
\* a store that was never opened
C17_Witness ==
  /\ call.op = "parseDeepLink"
  /\ StartsWith(call.link, LinkPrefix)
  /\ call.link.token[1] = "junk"
  /\ LinkLen(call.link) > MAX_LINK_SIZE
  /\ call.out.error = "size_limit"
  /\ db = "null"

\* the format version carried by the token of a link
StampedVersion(link) == Get(JsonParse(Base64Decode(link.token)), "v")

\* C18 (as stated): the v written into a token by createShareData /
\* generateDeepLink is the store's current schema version as
\* getMigrationInfo reports it, and so never exceeds the latest version of
\* the migration ladder.
C18_VersionStamp ==
  call.op = "roundTrip"
    => /\ StampedVersion(call.link) = Num(call.current)
       /\ StampedVersion(call.link)[2] <= GetLatestVersion

\* C18: a token stamped v = 3 was made on a store whose current and latest
\* schema version are 1
C18_Stamped3 ==
  /\ call.op = "roundTrip"
  /\ StampedVersion(call.link) = Num(3)
  /\ call.current = 1
  /\ GetLatestVersion = 1

\* C19 (as stated): a store whose recorded version is above the latest
\* version of the ladder is never treated as usable: runMigrations does not
\* return as for a store that is up to date, and validateSchema does not
\* return valid = true.
C19_FutureNotTrusted ==
  /\ (call.op = "initDatabase" /\ call.ran /\ call.mig.before > GetLatestVersion)
       => ~(call.mig.thrown = "" /\ call.mig.results = <<>>)
  /\ (/\ call.op = "validateDatabaseSchema"
      /\ ~isWebFallback
      /\ GetCurrentVersion(World) > GetLatestVersion)
       => ~call.out.valid

\* C19: initDatabase found version 2 recorded, above the ladder's 1;
\* runMigrations returned as for a store that is up to date and the
\* database was taken into use
C19_FutureTrusted ==
  /\ call.op = "initDatabase"
  /\ call.ran
  /\ call.mig.before = 2
  /\ GetLatestVersion = 1
  /\ call.mig.thrown = ""
  /\ call.mig.results = <<>>
  /\ db = "sqlite"
  /\ ~isWebFallback

\* every version above target up to current is a step of the ladder that
\* has a reverse action
Reversible(target, current) ==
  \A v \in (target + 1)..current :
    \E i \in 1..Len(Migrations) : Migrations[i].version = v /\ Migrations[i].down

\* C20 (as stated): for target < currentVersion() with every step between
\* them reversible, rollbackToVersion(target) runs the reverse actions in
\* descending order, completes without error and leaves currentVersion() =
\* target, also from 1 to 0; for target >= currentVersion() it throws and
\* changes nothing.
C20_RollbackReachesTarget ==
  call.op = "rollbackToVersion"
    => /\ (/\ call.targetVersion < call.before
           /\ Reversible(call.targetVersion, call.before))
            => /\ call.thrown = ""
               /\ GetCurrentVersion(World) = call.targetVersion
               /\ Len(call.done) = call.before - call.targetVersion
               /\ \A k \in 1..Len(call.done) : call.done[k] = call.before - k + 1
       /\ call.targetVersion >= call.before
            => call.thrown # "" /\ FileOf(World) = call.fileBefore

\* C20: the rollback from version 1 to 0 threw, and the store is still at
\* version 1 with its file as before
C20_RollbackFails ==
  /\ call.op = "rollbackToVersion"
  /\ call.targetVersion = 0
  /\ call.before = 1
  /\ call.thrown = "no such table: schema_info"
  /\ GetCurrentVersion(World) = 1
  /\ FileOf(World) = call.fileBefore

\* the steps of the call's ladder in (target, before] that lack a reverse
\* action
Irreversible ==
  {v \in (call.targetVersion + 1)..call.before : ~call.migrations[v].down}

\* C21: if a step in (target, currentVersion()] lacks a reverse action,
\* rollbackToVersion throws an error naming the highest such step, reverses
\* the steps above it in descending order and no other, and leaves
\* currentVersion() at the version of the step that lacks the reverse action.
C21_MissingReverseStops ==
  (call.op = "rollbackLadder" /\ Irreversible # {})
    => /\ call.thrown = "Migration " \o ToString(SetMax(Irreversible))
                           \o " does not support rollback"
       /\ Len(call.done) = call.before - SetMax(Irreversible)
       /\ \A k \in 1..Len(call.done) : call.done[k] = call.before - k + 1
       /\ call.after = SetMax(Irreversible)

\* C21: on a ladder whose step 2 has no reverse action, the rollback from 3
\* to 0 reversed step 3, threw at step 2 and left the store at version 2
C21_Witness ==
  /\ call.op = "rollbackLadder"
  /\ call.before = 3
  /\ call.targetVersion = 0
  /\ Irreversible = {2}
  /\ call.done = <<3>>
  /\ call.thrown = "Migration 2 does not support rollback"
  /\ call.after = 2

\* C22: for versions a <= c <= b, migrating records from a to b at once
\* gives the same records as migrating them from a to c and then from c to
\* b, and migrating the outcome once more changes nothing; for the backup
\* path and for the share path.
C22_CompositionStable ==
  call.op = "migrate"
    => /\ call.via = call.direct
       /\ call.again = call.direct
       /\ call.sharedVia = call.shared
       /\ call.sharedAgain = call.shared

\* C22: records of version 1 were brought to version 3 by way of version 2
\* and gained the fields of both steps
C22_Witness ==
  /\ call.op = "migrate"
  /\ call.a = 1 /\ call.c = 2 /\ call.b = 3
  /\ call.data = Obj(<< <<"database", Arr(<<Obj(<< <<"title", Str("Tea")>> >>)>>)>>,
                        <<"version", Num(1)>> >>)
  /\ call.direct # call.data
  /\ Get(call.direct, "database")[2][1]
       = Obj(<< <<"title", Str("Tea")>>, <<"cooking_method", Null>>,
                <<"source_type", Str("manual")>>, <<"nutrition", Null>> >>)
  /\ call.via = call.direct
  /\ call.shared = Get(call.direct, "database")[2][1]

\* the member k of o is there and has the typeof `type` (database: a list)
WellTyped(o, k, type) ==
  /\ HasKey(o, k)
  /\ TypeOf(Get(o, k)) = type
  /\ Get(o, k) # Null
  /\ k = "database" => IsArr(Get(o, k))
  /\ k # "database" => ~IsArr(Get(o, k))

\* every top-level field and every metadata sub-field of the snapshot is
\* present and of its type
WellFormed(backupData) ==
  /\ \A i \in 1..Len(TopLevelFields) :
       WellTyped(backupData, TopLevelFields[i][1], TopLevelFields[i][2])
  /\ WellTyped(Get(backupData, "metadata"), "created", "number")
  /\ WellTyped(Get(backupData, "metadata"), "app", "string")
  /\ WellTyped(Get(backupData, "metadata"), "schema", "number")
  /\ WellTyped(Get(backupData, "metadata"), "count", "number")

\* C23 (as stated): validateBackupIntegrity returns valid = false, with an
\* error, for every snapshot in which a top-level field (database,
\* preferences, version, timestamp, compressed, checksum, metadata) or a
\* metadata sub-field (created, app, schema, count) is missing or of the
\* wrong type.
C23_EveryFieldCovered ==
  (call.op = "validateBackupIntegrity" /\ ~WellFormed(call.backupData))
    => ~call.out.valid /\ Len(call.out.errors) > 0

\* C23: a snapshot without its preferences member was found valid
C23_PreferencesUnchecked ==
  /\ call.op = "validateBackupIntegrity"
  /\ ~HasKey(call.backupData, "preferences")
  /\ call.out.valid
  /\ call.out.errors = <<>>

\* C24 (as stated): every file written by createBackup is named
\* backup_v<schema>_<date>_<epoch-ms>.json, so that parseBackupFilename of
\* its name gives version = metadata.schema; parseBackupFilename of
\* createBackupFilename(m) gives m.schema and m.created; a name without
\* the version segment parses to version 1.
C24_NameCarriesSchema ==
  /\ \A i \in 1..Len(driveFiles) :
       (driveFiles[i].origin = "created" /\ ~driveFiles[i].altered)
         => LET metadata == Get(JsonParse(driveFiles[i].content), "metadata")
            IN /\ driveFiles[i].name = CreateBackupFilename(metadata)
               /\ ParseBackupFilename(driveFiles[i].name).version
                    = Get(metadata, "schema")
  /\ \A schema \in 0..MaxSchema, created \in 1..MaxTime :
       LET Parsed(r) == r.version = Num(schema) /\ r.timestamp = Num(created)
       IN Parsed(ParseBackupFilename(
                   CreateBackupFilename(BackupMetadata(Num(created), Str(APP_VERSION),
                                                       Num(schema), Num(0)))))
  /\ \A now \in 1..MaxTime : ParseBackupFilename(BackupFileName(now)).version = Num(1)

\* C24: createBackup wrote a file whose name has no version segment
C24_NameWithoutSchema ==
  /\ Len(driveFiles) > 0
  /\ driveFiles[1].origin = "created"
  /\ ~driveFiles[1].altered
  /\ driveFiles[1].name = "backup_1970-01-01_1.json"
  /\ Get(Get(JsonParse(driveFiles[1].content), "metadata"), "schema") = Num(1)
  /\ driveFiles[1].name
       # CreateBackupFilename(Get(JsonParse(driveFiles[1].content), "metadata"))

\* the schema version in the metadata of the file the call restores
RestoredSchema == Get(Get(JsonParse(call.file.content), "metadata"), "schema")

\* C25 (as stated): for a snapshot whose metadata.schema exceeds the
\* store's current schema version (which is at most the latest version of
\* the ladder), restoreBackup writes nothing to the store and returns
\* false, whatever the user answers to the compatibility prompt.
C25_NewerNeverRestored ==
  (/\ call.op = "restoreBackup"
   /\ IsObj(JsonParse(call.file.content))
   /\ IsNum(RestoredSchema)
   /\ RestoredSchema[2] > GetLatestVersion)
    => /\ ~call.out
       /\ userPreferences = call.preferencesBefore

\* C25: a snapshot of schema 2 was restored on a store at version 1 after
\* the user chose Continue: its theme preference was written and the call
\* returned true
C25_NewerRestored ==
  /\ call.op = "restoreBackup"
  /\ RestoredSchema = Num(2)
  /\ db # "null"
  /\ MigrationInfo(World).currentVersion = 1
  /\ call.env.continue
  /\ call.out
  /\ GetUserPreference(World, "theme") = Str("dark")
  /\ userPreferences # call.preferencesBefore

\* the recipe has the fields that the steps up to currentVersion fill in
CarriesDefaults(recipe, currentVersion) ==
  /\ currentVersion >= 2 => HasKey(recipe, "cooking_method") /\ HasKey(recipe, "source_type")
  /\ currentVersion >= 3 => HasKey(recipe, "nutrition")

\* C26 (as stated): whenever an import is accepted with shareVersion <
\* currentVersion, the recipe returned by parseDeepLink, like the one
\* returned by handleImport, has gone through the transformation of every
\* version in (shareVersion, currentVersion]: it carries cooking_method and
\* source_type when currentVersion >= 2 and nutrition when currentVersion
\* >= 3.
C26_OlderImportsMigrated ==
  /\ (/\ call.op = "parseDeepLink"
      /\ call.out.isValid
      /\ call.out.shareVersion[2] < call.current)
       => /\ call.out.recipe = TransformRange(call.staged.recipe,
                                              call.out.shareVersion[2] + 1, call.current)
          /\ CarriesDefaults(call.out.recipe, call.current)
  /\ (/\ call.op = "handleImport"
      /\ call.out.ok
      /\ Or(Get(JsonParse(call.data[2]), "v"), Num(1))[2] < call.current)
       => CarriesDefaults(call.out.recipe, call.current)

\* C26: on a store at version 2, parseDeepLink accepted a payload of
\* version 1 and returned its recipe without cooking_method and
\* source_type
C26_ReturnedUnmigrated ==
  /\ call.op = "parseDeepLink"
  /\ call.out.isValid
  /\ call.out.shareVersion = Num(1)
  /\ call.current = 2
  /\ call.out.recipe = call.staged.recipe
  /\ ~HasKey(call.out.recipe, "cooking_method")
  /\ ~HasKey(call.out.recipe, "source_type")

\* the records of the file the call restores, as its producer wrote them
RestoredRecords == Get(JsonParse(call.file.content), "database")

Openers == {p \in Callers : callers[p].pc \in LadderPcs \/ callers[p].via = "ladder"}

\* C28 (as stated): under every interleaving of concurrent initDatabase
\* callers only one of them opens the store and runs the ladder, each
\* step's forward action is executed at most once, and no caller is handed
\* the SQLite store while the ladder is still running.
C28_SingleInitialisation ==
  /\ Cardinality(Openers) <= 1
  /\ \A i \in 1..Len(Migrations) : upDone[Migrations[i].version] <= 1
  /\ \A p \in Callers :
       (callers[p].pc = "returned" /\ callers[p].got = "sqlite")
         => \A q \in Callers : callers[q].pc \notin {"ensure", "version", "step"}

\* C28: both callers found `db` unset, both opened the file and read
\* version 0, and the forward action of step 1 was committed twice
C28_LadderRunTwice ==
  /\ \A p \in Callers : callers[p].via = "ladder" /\ callers[p].currentVersion = 0
  /\ upDone[1] = 2

\* C28: a caller was handed the SQLite handle while another was still
\* about to create the tables
C28_UsedBeforeLadder ==
  \E p, q \in Callers :
    /\ callers[p].via = "shortcut"
    /\ callers[p].got = "sqlite"
    /\ callers[q].pc = "step"
    /\ "recipes" \notin tables

\* C29 (as stated): a link that generateDeepLink made from a recipe of the
\* store is classified 'duplicate' by parseDeepLink on that store whenever
\* the version check passes, also when the recipe was stored without
\* ingredients or instructions.
C29_OwnExportIsDuplicate ==
  (/\ call.op = "shareStored"
   /\ call.ok
   /\ ~Newer(Num(CURRENT_VERSION), call.current))
    => call.out.error = "duplicate"

\* C29: a recipe stored without ingredients and instructions (NULL columns)
\* was shared and its link opened on the same store at schema version 3;
\* the payload carries '' for both and the link was accepted as new
C29_OwnExportAccepted ==
  /\ call.op = "shareStored"
  /\ call.ok
  /\ call.current = CURRENT_VERSION
  /\ Get(call.recipe, "ingredients") = Null
  /\ Get(call.recipe, "instructions") = Null
  /\ \E i \in 1..Len(call.existing) : call.existing[i] = call.recipe
  /\ call.out.isValid
  /\ Get(call.out.recipe, "ingredients") = Str("")

\* C29: a recipe stored with ingredients and instructions was shared and
\* its link classified 'duplicate'
C29_FilledIsDuplicate ==
  /\ call.op = "shareStored"
  /\ call.ok
  /\ call.current = CURRENT_VERSION
  /\ Get(call.recipe, "ingredients") = Str("water, leaves")
  /\ call.out.error = "duplicate"

\* C30 (as stated): after any sequence of successful createBackup calls at
\* most MAX_BACKUPS backup files remain on Drive.
C30_AtMostMaxBackups == Len(driveFiles) <= MAX_BACKUPS

\* C30: a createBackup whose upload and whose listing in cleanupOldBackups
\* both succeeded has left MAX_BACKUPS + 1 backup files on Drive
C30_SixthBackupKept ==
  /\ call.op = "createBackup"
  /\ call.out
  /\ call.env.listed
  /\ Len(driveFiles) = MAX_BACKUPS + 1
  /\ \A i \in 1..Len(driveFiles) : driveFiles[i].origin = "created"
  /\ Len(ListBackups(driveFiles)) = MAX_BACKUPS

=============================================================================
